---- MODULE Spec2Model ----
(***************************************************************************)
(* A model of cogger's IFD rewriting engine (cog.go and its field codec):  *)
(* the IFD tree, the structure planner, the offset computer with its       *)
(* restart in BigTIFF mode, the tile interleaver and the writer.           *)
(*                                                                         *)
(* The output sink is the sequence `out` of the writes made so far; each   *)
(* write records the sink position at which it landed (at) and its length  *)
(* (len).  Scalars keep their values; 32-bit addressing is modelled with   *)
(* AddrBits bits so that the arithmetic stays inside TLC's integers.       *)
(***************************************************************************)
EXTENDS Integers, Sequences, FiniteSets, TLC

\* ------------------------------------------------------------------ bounds
\* largest number of overviews of an input tree
MaxOverviews == 2
\* width, in bits, of the model's stand-in for uint32 offsets
AddrBits == 12

\* ^uint32(0), the largest offset a classic TIFF can hold
MaxUint32 == 2^AddrBits - 1

\* --------------------------------------------------------------- constants
subfileTypeNone == 0
subfileTypeReducedImage == 1
subfileTypeMask == 4
\* len(ghost), len(ghostmask)
ghostLen == 184
ghostmaskLen == 217

\* ----------------------------------------------------------------- helpers
Min(a, b) == IF a < b THEN a ELSE b
Max(a, b) == IF a > b THEN a ELSE b
Range(s) == {s[i] : i \in 1..Len(s)}
Last(s) == s[Len(s)]

RECURSIVE Flatten(_)
Flatten(ss) == IF ss = <<>> THEN <<>> ELSE Head(ss) \o Flatten(Tail(ss))

RECURSIVE SumLen(_)
SumLen(ss) == IF ss = <<>> THEN 0 ELSE Len(Head(ss)) + SumLen(Tail(ss))

\* binary.ByteOrder.PutUintN: the n bytes of v in the order enc
RECURSIVE LEBytes(_, _)
LEBytes(v, n) == IF n = 0 THEN <<>> ELSE <<v % 256>> \o LEBytes(v \div 256, n - 1)
Reverse(s) == [i \in 1..Len(s) |-> s[Len(s) + 1 - i]]
PutUint(enc, v, n) == IF enc = "LE" THEN LEBytes(v, n) ELSE Reverse(LEBytes(v, n))

\* ------------------------------------------------------------------- IFD
\* The zero value of the IFD struct.  Arrays and strings are sequences.
EmptyIFD ==
  [ SubfileType |-> 0, ImageWidth |-> 0, ImageHeight |-> 0, BitsPerSample |-> <<>>,
    Compression |-> 0, PhotometricInterpretation |-> 0, DocumentName |-> <<>>,
    SamplesPerPixel |-> 0, PlanarConfiguration |-> 0, DateTime |-> <<>>,
    Predictor |-> 0, Colormap |-> <<>>, TileWidth |-> 0, TileHeight |-> 0,
    TileOffsets |-> <<>>, TileByteCounts |-> <<>>, ExtraSamples |-> <<>>,
    SampleFormat |-> <<>>, JPEGTables |-> <<>>,
    ModelPixelScaleTag |-> <<>>, ModelTiePointTag |-> <<>>,
    ModelTransformationTag |-> <<>>, GeoKeyDirectoryTag |-> <<>>,
    GeoDoubleParamsTag |-> <<>>, GeoAsciiParamsTag |-> <<>>, GDALMetaData |-> <<>>,
    NoData |-> <<>>, LERCParams |-> <<>>, RPCs |-> <<>>,
    LoadTile |-> 0,
    mask |-> <<>>, overviews |-> <<>>, newTileOffsets |-> <<>>,
    ntags |-> 0, tagSize |-> 0, strileSize |-> 0, planarInterleaving |-> <<>> ]

nTilesX(ifd) == (ifd.ImageWidth + ifd.TileWidth - 1) \div ifd.TileWidth
nTilesY(ifd) == (ifd.ImageHeight + ifd.TileHeight - 1) \div ifd.TileHeight
nPlanes(ifd) == IF ifd.PlanarConfiguration = 2 THEN ifd.SamplesPerPixel ELSE 1
\* tileIdx, 0-based as in the source
tileIdx(ifd, x, y, plane) == nTilesX(ifd) * nTilesY(ifd) * plane + y * nTilesX(ifd) + x
tileLen(ifd, idx) == ifd.TileByteCounts[idx + 1]

hasMask(ifd) == ifd.mask # <<>>

\* SetPlanarInterleaving: [err, ifd]
SetPlanarInterleaving(ifd, pi) ==
  LET n == ifd.SamplesPerPixel + (IF hasMask(ifd) THEN 1 ELSE 0)
      flat == Flatten(pi)
      bad == \E i \in 1..Len(flat) :
                \/ flat[i] < 0 \/ flat[i] >= n
                \/ \E j \in 1..(i - 1) : flat[j] = flat[i]
      missing == \E v \in 0..(n - 1) : v \notin Range(flat)
  IN IF ifd.PlanarConfiguration # 2
       THEN [err |-> "ifd is not PLANARCONFIG_SEPARATE", ifd |-> ifd]
     ELSE IF bad THEN [err |-> "invalid/duplicate entry", ifd |-> ifd]
     ELSE IF missing THEN [err |-> "missing entry", ifd |-> ifd]
     ELSE [err |-> "",
           ifd |-> [ifd EXCEPT !.planarInterleaving = ifd.planarInterleaving \o pi]]

\* setDefaultPlanarInterleaving: [panic, ifd]
setDefaultPlanarInterleaving(ifd) ==
  IF ifd.planarInterleaving # <<>> THEN [panic |-> FALSE, ifd |-> ifd]
  ELSE IF nPlanes(ifd) = 1
    THEN [panic |-> FALSE,
          ifd |-> [ifd EXCEPT !.planarInterleaving =
                      IF hasMask(ifd) THEN << <<0, 1>> >> ELSE << <<0>> >>]]
  ELSE LET n == ifd.SamplesPerPixel + (IF hasMask(ifd) THEN 1 ELSE 0)
           ns == [i \in 1..n |-> i - 1]
           r == SetPlanarInterleaving(ifd, <<ns>>)
       IN [panic |-> r.err # "", ifd |-> r.ifd]

\* a reset that leaves the GeoKeyDirectory
clearGeoTagsKeepKeys(x) ==
  [x EXCEPT !.ModelPixelScaleTag = <<>>, !.ModelTiePointTag = <<>>,
            !.ModelTransformationTag = <<>>, !.GeoAsciiParamsTag = <<>>,
            !.GeoDoubleParamsTag = <<>>]

\* The geo tags AddOverview and AddMask reset on the attached IFD
clearGeoTags(x) ==
  [x EXCEPT !.ModelPixelScaleTag = <<>>, !.ModelTiePointTag = <<>>,
            !.ModelTransformationTag = <<>>, !.GeoAsciiParamsTag = <<>>,
            !.GeoDoubleParamsTag = <<>>, !.GeoKeyDirectoryTag = <<>>]

\* AddOverview without the test of the band count
AddOverviewAnyBands(ifd, ovr) ==
  IF Len(ovr.overviews) > 0
    THEN [err |-> "cannot add overview with embedded overview", ifd |-> ifd, ovr |-> ovr]
  ELSE
    LET o1 == clearGeoTags([ovr EXCEPT !.SubfileType = subfileTypeReducedImage])
        n == Len(ifd.overviews)
        prev == IF n > 0 THEN ifd.overviews[n] ELSE ifd
    IN IF prev.ImageWidth <= o1.ImageWidth \/ prev.ImageHeight <= o1.ImageHeight
         THEN [err |-> "invalid overview size", ifd |-> ifd, ovr |-> o1]
       ELSE [err |-> "", ifd |-> [ifd EXCEPT !.overviews = Append(@, o1)], ovr |-> o1]

\* AddOverview: [err, ifd (the receiver), ovr (the candidate, as left by the call)]
AddOverview(ifd, ovr) ==
  IF Len(ovr.overviews) > 0
    THEN [err |-> "cannot add overview with embedded overview", ifd |-> ifd, ovr |-> ovr]
  ELSE
    LET o1 == clearGeoTags([ovr EXCEPT !.SubfileType = subfileTypeReducedImage])
        n == Len(ifd.overviews)
        \* 0-based index of the first overview that is not larger in both dimensions
        stops == {i \in 0..(n - 1) :
                    ~(ifd.overviews[i + 1].ImageWidth > o1.ImageWidth
                      /\ ifd.overviews[i + 1].ImageHeight > o1.ImageHeight)}
        idx == IF stops = {} THEN n
               ELSE CHOOSE i \in stops : \A j \in stops : i <= j
        prev == IF n > 0 THEN ifd.overviews[n] ELSE ifd
    IN IF prev.ImageWidth <= o1.ImageWidth \/ prev.ImageHeight <= o1.ImageHeight
         THEN [err |-> "invalid overview size", ifd |-> ifd, ovr |-> o1]
       ELSE IF prev.SamplesPerPixel # o1.SamplesPerPixel
               \/ Len(prev.BitsPerSample) # Len(o1.BitsPerSample)
         THEN [err |-> "invalid band count", ifd |-> ifd, ovr |-> o1]
       ELSE [err |-> "",
             ifd |-> [ifd EXCEPT !.overviews =
                         SubSeq(ifd.overviews, 1, idx) \o <<o1>>
                           \o SubSeq(ifd.overviews, idx + 1, n)],
             ovr |-> o1]

\* AddMask without the test of the tile size
AddMaskAnyTiling(ifd, msk) ==
  IF hasMask(msk) \/ Len(msk.overviews) > 0
    THEN [err |-> "cannot add mask containing overviews or mask", ifd |-> ifd, msk |-> msk]
  ELSE IF Len(ifd.planarInterleaving) > 0
    THEN [err |-> "AddMask must be called before calling SetPlanarInterleaving",
          ifd |-> ifd, msk |-> msk]
  ELSE IF \/ msk.ImageWidth # ifd.ImageWidth \/ msk.ImageHeight # ifd.ImageHeight
          \/ msk.SamplesPerPixel # 1 \/ Len(msk.BitsPerSample) # 1
          \/ Len(msk.TileByteCounts) # Len(ifd.TileByteCounts) \div nPlanes(ifd)
    THEN [err |-> "incompatible mask structure", ifd |-> ifd, msk |-> msk]
  ELSE IF ifd.SubfileType \notin {subfileTypeNone, subfileTypeReducedImage}
    THEN [err |-> "invalid parent subfiletype", ifd |-> ifd, msk |-> msk]
  ELSE LET m1 == clearGeoTags([msk EXCEPT !.SubfileType =
                     IF ifd.SubfileType = subfileTypeNone THEN subfileTypeMask
                     ELSE subfileTypeMask + subfileTypeReducedImage])
       IN [err |-> "", ifd |-> [ifd EXCEPT !.mask = <<m1>>], msk |-> m1]

\* AddMask: [err, ifd (the receiver), msk (the candidate, as left by the call)]
AddMask(ifd, msk) ==
  IF hasMask(msk) \/ Len(msk.overviews) > 0
    THEN [err |-> "cannot add mask containing overviews or mask", ifd |-> ifd, msk |-> msk]
  ELSE IF Len(ifd.planarInterleaving) > 0
    THEN [err |-> "AddMask must be called before calling SetPlanarInterleaving",
          ifd |-> ifd, msk |-> msk]
  ELSE IF \/ msk.ImageWidth # ifd.ImageWidth \/ msk.ImageHeight # ifd.ImageHeight
          \/ msk.TileWidth # ifd.TileWidth \/ msk.TileHeight # ifd.TileHeight
          \/ msk.SamplesPerPixel # 1 \/ Len(msk.BitsPerSample) # 1
          \/ Len(msk.TileByteCounts) # Len(ifd.TileByteCounts) \div nPlanes(ifd)
    THEN [err |-> "incompatible mask structure", ifd |-> ifd, msk |-> msk]
  ELSE IF ifd.SubfileType \notin {subfileTypeNone, subfileTypeReducedImage}
    THEN [err |-> "invalid parent subfiletype", ifd |-> ifd, msk |-> msk]
  ELSE LET m1 == clearGeoTags([msk EXCEPT !.SubfileType =
                     IF ifd.SubfileType = subfileTypeNone THEN subfileTypeMask
                     ELSE subfileTypeMask + subfileTypeReducedImage])
       IN [err |-> "", ifd |-> [ifd EXCEPT !.mask = <<m1>>], msk |-> m1]

\* ------------------------------------------------------------ field codec
\* arrayFieldSize32: the size of a []uint32 view of a strile array of ll entries
arrayFieldSize32(ll, bigtiff) ==
  IF bigtiff THEN (IF ll <= 2 THEN 20 ELSE 20 + 4 * ll)
  ELSE (IF ll <= 1 THEN 12 ELSE 12 + 4 * ll)

\* arrayFieldSize that leaves the terminating NUL of a string out
arrayFieldSizeNoTerminator(typ, n, bigtiff) ==
  IF bigtiff THEN
    CASE typ = "byte" -> IF n <= 8 THEN 20 ELSE 20 + n
      [] typ = "u16"  -> IF n <= 4 THEN 20 ELSE 20 + 2 * n
      [] typ = "u32"  -> IF n <= 2 THEN 20 ELSE 20 + 4 * n
      [] typ = "u64"  -> IF n <= 1 THEN 20 ELSE 20 + 8 * n
      [] typ = "f64"  -> IF n <= 1 THEN 20 ELSE 20 + n * 8
      [] typ = "str"  -> IF n <= 8 THEN 20 ELSE 20 + n
  ELSE
    CASE typ = "byte" -> IF n <= 4 THEN 12 ELSE 12 + n
      [] typ = "u16"  -> IF n <= 2 THEN 12 ELSE 12 + 2 * n
      [] typ = "u32"  -> IF n <= 1 THEN 12 ELSE 12 + 4 * n
      [] typ = "str"  -> IF n <= 4 THEN 12 ELSE 12 + n
      [] typ = "f64"  -> 12 + n * 8
      [] typ = "u64"  -> 12 + n * 8

\* arrayFieldSize, by element type; n is len(d)
arrayFieldSize(typ, n, bigtiff) ==
  IF bigtiff THEN
    CASE typ = "byte" -> IF n <= 8 THEN 20 ELSE 20 + n
      [] typ = "u16"  -> IF n <= 4 THEN 20 ELSE 20 + 2 * n
      [] typ = "u32"  -> IF n <= 2 THEN 20 ELSE 20 + 4 * n
      [] typ = "u64"  -> IF n <= 1 THEN 20 ELSE 20 + 8 * n
      [] typ = "f64"  -> IF n <= 1 THEN 20 ELSE 20 + n * 8
      [] typ = "str"  -> IF n <= 7 THEN 20 ELSE 20 + n + 1
  ELSE
    CASE typ = "byte" -> IF n <= 4 THEN 12 ELSE 12 + n
      [] typ = "u16"  -> IF n <= 2 THEN 12 ELSE 12 + 2 * n
      [] typ = "u32"  -> IF n <= 1 THEN 12 ELSE 12 + 4 * n
      [] typ = "str"  -> IF n <= 3 THEN 12 ELSE 12 + n + 1
      [] typ = "f64"  -> 12 + n * 8
      [] typ = "u64"  -> 12 + n * 8

\* tagData: the offset of a buffer, the bytes it holds, and what they are
NewTagData(offset) == [Offset |-> offset, len |-> 0, parts |-> <<>>]
NextOffset(t) == t.Offset + t.len

\* writeArray: [entry, tags].  The entry is the fixed-width directory entry; a
\* payload too long for its slot goes to tags and the slot holds its offset.
writeArray(cog, tag, typ, vals, tags) ==
  LET n == IF typ = "str" THEN Len(vals) + 1 ELSE Len(vals)
      inline ==
        IF cog.bigtiff THEN
          CASE typ = "byte" -> n <= 8
            [] typ = "u16"  -> n <= 4
            [] typ = "u32"  -> n <= 2
            [] typ = "u64"  -> n <= 1
            [] typ = "f64"  -> n = 1
            [] typ = "str"  -> n <= 8
        ELSE
          CASE typ = "byte" -> n <= 4
            [] typ = "u16"  -> n <= 2
            [] typ = "u32"  -> n <= 1
            [] typ = "u64"  -> FALSE
            [] typ = "f64"  -> FALSE
            [] typ = "str"  -> n <= 4
      width == CASE typ = "byte" -> 1 [] typ = "str" -> 1 [] typ = "u16" -> 2
                 [] typ = "u32" -> 4 [] typ = "u64" -> 8 [] typ = "f64" -> 8
  IN IF inline
       THEN [entry |-> [tag |-> tag, typ |-> typ, count |-> n, inline |-> TRUE,
                        ptr |-> 0, vals |-> vals],
             tags |-> tags]
     ELSE [entry |-> [tag |-> tag, typ |-> typ, count |-> n, inline |-> FALSE,
                      ptr |-> NextOffset(tags), vals |-> vals],
           tags |-> [tags EXCEPT !.len = tags.len + n * width,
                        !.parts = Append(tags.parts,
                                    [tag |-> tag, rel |-> tags.len, vals |-> vals,
                                     bytes |-> n * width])]]

\* uint32(v)
Uint32(v) == v % (MaxUint32 + 1)

\* writeArray32: the []uint64 narrowed to []uint32, then writeArray
writeArray32(cog, tag, vals, tags) ==
  writeArray(cog, tag, "u32", [i \in 1..Len(vals) |-> Uint32(vals[i])], tags)

\* writeField: the entry of a scalar
writeField(cog, tag, typ, v) ==
  [tag |-> tag, typ |-> typ, count |-> 1, inline |-> TRUE, ptr |-> 0, vals |-> <<v>>]

\* -------------------------------------------------------- structure planner
\* The tags computeStructure counts, in its order: the field, when it is counted
\* (pos: value > 0, len: non-empty, always) and the size it adds.
StructureTags ==
  << [f |-> "SubfileType", c |-> "pos", s |-> "tag"],
     [f |-> "ImageWidth", c |-> "pos", s |-> "tag"],
     [f |-> "ImageHeight", c |-> "pos", s |-> "tag"],
     [f |-> "BitsPerSample", c |-> "len", s |-> "u16"],
     [f |-> "Compression", c |-> "pos", s |-> "tag"],
     [f |-> "PhotometricInterpretation", c |-> "always", s |-> "tag"],
     [f |-> "DocumentName", c |-> "len", s |-> "str"],
     [f |-> "SamplesPerPixel", c |-> "pos", s |-> "tag"],
     [f |-> "PlanarConfiguration", c |-> "pos", s |-> "tag"],
     [f |-> "DateTime", c |-> "len", s |-> "str"],
     [f |-> "Predictor", c |-> "pos", s |-> "tag"],
     [f |-> "Colormap", c |-> "len", s |-> "u16"],
     [f |-> "TileWidth", c |-> "pos", s |-> "tag"],
     [f |-> "TileHeight", c |-> "pos", s |-> "tag"],
     [f |-> "TileByteCounts", c |-> "len", s |-> "strileOffsets"],
     [f |-> "TileByteCounts", c |-> "len", s |-> "strileCounts"],
     [f |-> "ExtraSamples", c |-> "len", s |-> "u16"],
     [f |-> "SampleFormat", c |-> "len", s |-> "u16"],
     [f |-> "JPEGTables", c |-> "len", s |-> "byte"],
     [f |-> "ModelPixelScaleTag", c |-> "len", s |-> "f64"],
     [f |-> "ModelTiePointTag", c |-> "len", s |-> "f64"],
     [f |-> "ModelTransformationTag", c |-> "len", s |-> "f64"],
     [f |-> "GeoKeyDirectoryTag", c |-> "len", s |-> "u16"],
     [f |-> "GeoDoubleParamsTag", c |-> "len", s |-> "f64"],
     [f |-> "GeoAsciiParamsTag", c |-> "len", s |-> "str"],
     [f |-> "GDALMetaData", c |-> "len", s |-> "str"],
     [f |-> "NoData", c |-> "len", s |-> "str"],
     [f |-> "LERCParams", c |-> "len", s |-> "u32"],
     [f |-> "RPCs", c |-> "len", s |-> "f64"] >>

Counted(ifd, cl) ==
  CASE cl.c = "pos" -> ifd[cl.f] > 0
    [] cl.c = "len" -> Len(ifd[cl.f]) > 0
    [] cl.c = "always" -> TRUE

\* computeStructure: the IFD with ntags, tagSize and strileSize recomputed
RECURSIVE structureFrom(_, _, _, _)
structureFrom(cog, ifd, k, acc) ==
  IF k > Len(StructureTags) THEN acc
  ELSE
    LET cl == StructureTags[k]
        tagSize == IF cog.bigtiff THEN 20 ELSE 12
        n == Len(ifd.TileByteCounts)
    IN IF ~Counted(ifd, cl) THEN structureFrom(cog, ifd, k + 1, acc)
       ELSE structureFrom(cog, ifd, k + 1,
         CASE cl.s = "tag" ->
                [acc EXCEPT !.ntags = @ + 1, !.tagSize = @ + tagSize]
           [] cl.s = "strileOffsets" ->
                [acc EXCEPT !.ntags = @ + 1, !.tagSize = @ + tagSize,
                   !.strileSize = @ + (IF cog.bigtiff
                                         THEN arrayFieldSize("u64", n, TRUE)
                                         ELSE arrayFieldSize32(n, FALSE)) - tagSize]
           [] cl.s = "strileCounts" ->
                [acc EXCEPT !.ntags = @ + 1, !.tagSize = @ + tagSize,
                   !.strileSize = @ + arrayFieldSize32(n, cog.bigtiff) - tagSize]
           [] OTHER ->
                [acc EXCEPT !.ntags = @ + 1,
                   !.tagSize = @ + arrayFieldSize(cl.s, Len(ifd[cl.f]), cog.bigtiff)])

computeStructure(cog, ifd) ==
  LET r == structureFrom(cog, ifd, 1,
             [ntags |-> 0, tagSize |-> (IF cog.bigtiff THEN 16 ELSE 6), strileSize |-> 0])
  IN [ifd EXCEPT !.ntags = r.ntags, !.tagSize = r.tagSize, !.strileSize = r.strileSize]

\* ----------------------------------------------------------------- writeIFD
\* The tags writeIFD emits, in its order: how each is written (field, array into
\* the directory's overflow area, strile array) and when.
WriterTags ==
  << [tag |-> 254, f |-> "SubfileType", how |-> "field", typ |-> "u32", c |-> "pos"],
     [tag |-> 256, f |-> "ImageWidth", how |-> "field32", typ |-> "u32", c |-> "pos"],
     [tag |-> 257, f |-> "ImageHeight", how |-> "field32", typ |-> "u32", c |-> "pos"],
     [tag |-> 258, f |-> "BitsPerSample", how |-> "array", typ |-> "u16", c |-> "len"],
     [tag |-> 259, f |-> "Compression", how |-> "field", typ |-> "u16", c |-> "pos"],
     [tag |-> 262, f |-> "PhotometricInterpretation", how |-> "field", typ |-> "u16",
      c |-> "always"],
     [tag |-> 269, f |-> "DocumentName", how |-> "array", typ |-> "str", c |-> "len"],
     [tag |-> 277, f |-> "SamplesPerPixel", how |-> "field", typ |-> "u16", c |-> "pos"],
     [tag |-> 284, f |-> "PlanarConfiguration", how |-> "field", typ |-> "u16",
      c |-> "pos"],
     [tag |-> 306, f |-> "DateTime", how |-> "array", typ |-> "str", c |-> "len"],
     [tag |-> 317, f |-> "Predictor", how |-> "field", typ |-> "u16", c |-> "pos"],
     [tag |-> 320, f |-> "Colormap", how |-> "array", typ |-> "u16", c |-> "len"],
     [tag |-> 322, f |-> "TileWidth", how |-> "field", typ |-> "u16", c |-> "pos"],
     [tag |-> 323, f |-> "TileHeight", how |-> "field", typ |-> "u16", c |-> "pos"],
     [tag |-> 324, f |-> "newTileOffsets", how |-> "strileOffsets", typ |-> "u64",
      c |-> "len"],
     [tag |-> 325, f |-> "TileByteCounts", how |-> "strile32", typ |-> "u32",
      c |-> "len"],
     [tag |-> 338, f |-> "ExtraSamples", how |-> "array", typ |-> "u16", c |-> "len"],
     [tag |-> 339, f |-> "SampleFormat", how |-> "array", typ |-> "u16", c |-> "len"],
     [tag |-> 347, f |-> "JPEGTables", how |-> "array", typ |-> "byte", c |-> "len"],
     [tag |-> 33550, f |-> "ModelPixelScaleTag", how |-> "array", typ |-> "f64",
      c |-> "len"],
     [tag |-> 33922, f |-> "ModelTiePointTag", how |-> "array", typ |-> "f64",
      c |-> "len"],
     [tag |-> 34264, f |-> "ModelTransformationTag", how |-> "array", typ |-> "f64",
      c |-> "len"],
     [tag |-> 34735, f |-> "GeoKeyDirectoryTag", how |-> "array", typ |-> "u16",
      c |-> "len"],
     [tag |-> 34736, f |-> "GeoDoubleParamsTag", how |-> "array", typ |-> "f64",
      c |-> "len"],
     [tag |-> 34737, f |-> "GeoAsciiParamsTag", how |-> "array", typ |-> "str",
      c |-> "len"],
     [tag |-> 42112, f |-> "GDALMetaData", how |-> "array", typ |-> "str", c |-> "len"],
     [tag |-> 42113, f |-> "NoData", how |-> "array", typ |-> "str", c |-> "len"],
     [tag |-> 50674, f |-> "LERCParams", how |-> "array", typ |-> "u32", c |-> "len"],
     [tag |-> 50844, f |-> "RPCs", how |-> "array", typ |-> "f64", c |-> "len"] >>

\* The entries of one directory, written in order: [entries, overflow, strile]
RECURSIVE writeTags(_, _, _, _)
writeTags(cog, ifd, k, acc) ==
  IF k > Len(WriterTags) THEN acc
  ELSE
    LET cl == WriterTags[k]
    IN IF ~Counted(ifd, cl) THEN writeTags(cog, ifd, k + 1, acc)
       ELSE writeTags(cog, ifd, k + 1,
         CASE cl.how = "field" ->
                [acc EXCEPT !.entries =
                   Append(@, writeField(cog, cl.tag, cl.typ, ifd[cl.f]))]
           [] cl.how = "field32" ->
                [acc EXCEPT !.entries =
                   Append(@, writeField(cog, cl.tag, cl.typ, Uint32(ifd[cl.f])))]
           [] cl.how = "array" ->
                LET r == writeArray(cog, cl.tag, cl.typ, ifd[cl.f], acc.overflow)
                IN [acc EXCEPT !.entries = Append(@, r.entry), !.overflow = r.tags]
           [] cl.how = "strileOffsets" ->
                LET r == IF cog.bigtiff
                           THEN writeArray(cog, cl.tag, "u64", ifd[cl.f], acc.strile)
                           ELSE writeArray32(cog, cl.tag, ifd[cl.f], acc.strile)
                IN [acc EXCEPT !.entries = Append(@, r.entry), !.strile = r.tags]
           [] cl.how = "strile32" ->
                LET r == writeArray32(cog, cl.tag, ifd[cl.f], acc.strile)
                IN [acc EXCEPT !.entries = Append(@, r.entry), !.strile = r.tags])

\* writeIFD: what one call writes to the sink (the entry count, the entries, the
\* next-IFD pointer, the overflow area) and the strile buffer it leaves
writeIFD(cog, ifd, offset, striledata, next) ==
  LET nextOff == IF next THEN offset + ifd.tagSize ELSE 0
      overflow == NewTagData(IF cog.bigtiff THEN offset + 8 + 20 * ifd.ntags + 8
                             ELSE offset + 2 + 12 * ifd.ntags + 4)
      r == writeTags(cog, ifd, 1,
             [entries |-> <<>>, overflow |-> overflow, strile |-> striledata])
      bytes == (IF cog.bigtiff THEN 8 ELSE 2)
               + Len(r.entries) * (IF cog.bigtiff THEN 20 ELSE 12)
               + (IF cog.bigtiff THEN 8 ELSE 4)
               + r.overflow.len
  IN [d |-> [count |-> ifd.ntags, entries |-> r.entries,
             next |-> IF cog.bigtiff THEN nextOff ELSE Uint32(nextOff),
             overflow |-> r.overflow],
      len |-> bytes,
      striledata |-> r.strile]

\* ------------------------------------------------------------- the IFD tree
\* A node of the tree: level 0 is the main image, level k is overviews[k-1]
\* (1-based here); m selects the node's mask.
Node(t, lvl, m) ==
  LET b == IF lvl = 0 THEN t ELSE t.overviews[lvl]
  IN IF m THEN b.mask[1] ELSE b

\* tile.ifd.newTileOffsets[idx] = v
SetNewTileOffset(t, lvl, m, idx, v) ==
  IF lvl = 0
    THEN IF m THEN [t EXCEPT !.mask[1].newTileOffsets[idx + 1] = v]
         ELSE [t EXCEPT !.newTileOffsets[idx + 1] = v]
  ELSE IF m THEN [t EXCEPT !.overviews[lvl].mask[1].newTileOffsets[idx + 1] = v]
       ELSE [t EXCEPT !.overviews[lvl].newTileOffsets[idx + 1] = v]

\* f applied to an IFD and to its mask
Zeros(n) == [i \in 1..n |-> 0]
allocOffsets(x) ==
  LET a == [x EXCEPT !.newTileOffsets = Zeros(Len(x.TileByteCounts))]
  IN IF hasMask(x)
       THEN [a EXCEPT !.mask[1].newTileOffsets = Zeros(Len(x.mask[1].TileByteCounts))]
     ELSE a

\* ---------------------------------------------------------- tile interleaver
\* ifdInterlacing with the levels from the main image down to the smallest overview
ifdInterlacingMainFirst(t) ==
  LET n == Len(t.overviews)
      havemask == hasMask(t)
  IN [i \in 1..(n + 1) |->
        IF i = 1 THEN [lvl |-> 0, mask |-> havemask]
        ELSE [lvl |-> i - 1, mask |-> havemask /\ hasMask(t.overviews[i - 1])]]

\* ifdInterlacing: the levels from the smallest overview up to the main image,
\* each with whether its mask takes part
ifdInterlacing(t) ==
  LET n == Len(t.overviews)
      havemask == hasMask(t)
  IN [i \in 1..(n + 1) |->
        IF i = n + 1 THEN [lvl |-> 0, mask |-> havemask]
        ELSE [lvl |-> n + 1 - i,
              mask |-> havemask /\ hasMask(t.overviews[n + 1 - i])]]

\* the tiles of a group when only its first plane is visited
tilesOfGroupFirstPlane(t, e, l1) ==
  LET x0 == Node(t, e.lvl, FALSE)
      maskIdx == IF e.mask
                   THEN (IF x0.PlanarConfiguration = 2 THEN x0.SamplesPerPixel ELSE 1)
                 ELSE -1
      ntx == nTilesX(x0)
      nty == nTilesY(x0)
  IN [k \in 1..(nty * ntx) |->
        IF l1[1] # maskIdx
          THEN [lvl |-> e.lvl, mask |-> FALSE, plane |-> l1[1],
                x |-> (k - 1) % ntx, y |-> (k - 1) \div ntx]
        ELSE [lvl |-> e.lvl, mask |-> TRUE, plane |-> 0,
              x |-> (k - 1) % ntx, y |-> (k - 1) \div ntx]]

\* The tiles one group l1 of an entry's planarInterleaving yields: for y, for x,
\* for p in l1
tilesOfGroup(t, e, l1) ==
  LET x0 == Node(t, e.lvl, FALSE)
      maskIdx == IF e.mask
                   THEN (IF x0.PlanarConfiguration = 2 THEN x0.SamplesPerPixel ELSE 1)
                 ELSE -1
      ntx == nTilesX(x0)
      nty == nTilesY(x0)
      g == Len(l1)
  IN [k \in 1..(nty * ntx * g) |->
        LET p == l1[((k - 1) % g) + 1]
            pos == (k - 1) \div g
        IN IF p # maskIdx
             THEN [lvl |-> e.lvl, mask |-> FALSE, plane |-> p,
                   x |-> pos % ntx, y |-> pos \div ntx]
           ELSE [lvl |-> e.lvl, mask |-> TRUE, plane |-> 0,
                 x |-> pos % ntx, y |-> pos \div ntx]]

RECURSIVE tilesOfGroups(_, _, _)
tilesOfGroups(t, e, pi) ==
  IF pi = <<>> THEN <<>>
  ELSE tilesOfGroup(t, e, Head(pi)) \o tilesOfGroups(t, e, Tail(pi))

\* tiles: everything the producer sends on the channel, in order
RECURSIVE tiles(_, _)
tiles(t, entries) ==
  IF entries = <<>> THEN <<>>
  ELSE tilesOfGroups(t, Head(entries),
                     Node(t, Head(entries).lvl, FALSE).planarInterleaving)
         \o tiles(t, Tail(entries))

\* ------------------------------------------------------------ offset computer
\* computeStructure on an IFD and on its mask
planLevel(cog, x) ==
  LET a == computeStructure(cog, x)
  IN IF hasMask(x) THEN [a EXCEPT !.mask = <<computeStructure(cog, x.mask[1])>>]
     ELSE a

\* the loop over the overviews of computeImageryOffsets: [err, ifd]
RECURSIVE planOverviews(_, _, _)
planOverviews(cog, t, i) ==
  IF i > Len(t.overviews) THEN [err |-> "", ifd |-> t]
  ELSE IF nPlanes(t.overviews[i]) # nPlanes(t)
    THEN [err |-> "inconsistent band count", ifd |-> t]
  ELSE IF hasMask(t.overviews[i]) # hasMask(t)
    THEN [err |-> "inconsistent mask count", ifd |-> t]
  ELSE planOverviews(cog, [t EXCEPT !.overviews[i] = planLevel(cog, @)], i + 1)

\* planTree that keeps the sizes of an earlier pass
planTreeOnce(cog, t) ==
  IF t.ntags > 0 THEN [err |-> "", ifd |-> t]
  ELSE planOverviews(cog, planLevel(cog, t), 1)

\* the structure pass at the head of computeImageryOffsets: [err, ifd]
planTree(cog, t) ==
  planOverviews(cog, planLevel(cog, t), 1)

\* strileSize + tagSize of an IFD and of its mask
levelBytes(x) ==
  x.strileSize + x.tagSize
    + (IF hasMask(x) THEN x.mask[1].strileSize + x.mask[1].tagSize ELSE 0)

RECURSIVE sumLevels(_, _)
sumLevels(ovs, i) ==
  IF i > Len(ovs) THEN 0 ELSE levelBytes(ovs[i]) + sumLevels(ovs, i + 1)

\* firstDataOffset without the 4 bytes of the first tile's leader
firstDataOffsetNoLeader(cog, t) ==
  (IF cog.bigtiff THEN 16 ELSE 8)
    + (IF cog.withGDALGhost THEN (IF hasMask(t) THEN ghostmaskLen ELSE ghostLen) ELSE 0)
    + levelBytes(t) + sumLevels(t.overviews, 1)

\* the offset of the first tile body
firstDataOffset(cog, t) ==
  (IF cog.bigtiff THEN 16 ELSE 8)
    + (IF cog.withGDALGhost
         THEN (IF hasMask(t) THEN ghostmaskLen + 4 ELSE ghostLen + 4)
       ELSE 0)
    + levelBytes(t) + sumLevels(t.overviews, 1)

\* the tagSize of an IFD and of its mask
levelTagBytes(x) == x.tagSize + (IF hasMask(x) THEN x.mask[1].tagSize ELSE 0)

RECURSIVE sumTagBytes(_, _)
sumTagBytes(ovs, i) ==
  IF i > Len(ovs) THEN 0 ELSE levelTagBytes(ovs[i]) + sumTagBytes(ovs, i + 1)

\* the length of the ghost block the header is followed by
ghostBytes(cog, t) ==
  IF cog.withGDALGhost THEN (IF hasMask(t) THEN ghostmaskLen ELSE ghostLen) ELSE 0

\* strileData.Offset: where the strile arrays start
strileOffset(cog, t) ==
  (IF cog.bigtiff THEN 16 ELSE 8) + ghostBytes(cog, t)
    + levelTagBytes(t) + sumTagBytes(t.overviews, 1)

\* writeHeader: the bytes of the TIFF header
headerBytes(cog, t) ==
  LET glen == ghostBytes(cog, t)
      bom == IF cog.enc = "LE" THEN <<73, 73>> ELSE <<77, 77>>
  IN IF cog.bigtiff
       THEN bom \o PutUint(cog.enc, 43, 2) \o PutUint(cog.enc, 8, 2)
              \o PutUint(cog.enc, 0, 2) \o PutUint(cog.enc, 16 + glen, 8)
     ELSE bom \o PutUint(cog.enc, 42, 2) \o PutUint(cog.enc, Uint32(8 + glen), 4)

\* ------------------------------------------------------------------ inputs
\* The byte b of the tile idx of the input IFD src, as LoadTile reads it
TileByte(src, idx, b) == ((src * 37 + idx * 11 + b * 7) % 251) + 1

\* The shapes of the input trees: the number of overviews, which levels carry a
\* mask, the sample layout, the optional tags present and the tile byte counts.
Shapes ==
  { sh \in [ n : 0..MaxOverviews, mask : {"none", "all", "main"},
             planar : {"gray", "rgb", "sep3", "sep1", "mixed"},
             tags : {"min", "geo"},
             bytes : {"sparse", "small", "big", "lastbig"} ] :
      /\ sh.mask = "main" => sh.n > 0
      /\ sh.planar = "mixed" => sh.n > 0 }

ByteCount(pat, lvl, m, idx, ntiles) ==
  CASE pat = "sparse" -> 0
    [] pat = "small" -> (idx + lvl + (IF m THEN 1 ELSE 0)) % 6
    [] pat = "big" -> MaxUint32 \div 4
    [] pat = "lastbig" -> IF lvl = 0 /\ ~m /\ idx = ntiles - 1 THEN MaxUint32 ELSE 9

\* An IFD as loadIFD returns it for level lvl of the shape (m: its mask)
RawIFD(sh, lvl, m) ==
  LET spp == IF m \/ sh.planar \in {"gray", "sep1"} THEN 1 ELSE 3
      pcfg == IF m \/ sh.planar \in {"gray", "rgb"} THEN 1
              ELSE IF sh.planar = "mixed" /\ lvl > 0 THEN 1 ELSE 2
      w == IF lvl = 0 THEN 32 ELSE 48 \div (2 ^ lvl)
      h == IF lvl = 0 THEN 32 ELSE 32 \div (2 ^ lvl)
      ntiles == (IF pcfg = 2 THEN spp ELSE 1) * ((w + 15) \div 16) * ((h + 15) \div 16)
      base == [EmptyIFD EXCEPT
                 !.SubfileType = IF m THEN subfileTypeMask
                                 ELSE IF lvl > 0 THEN subfileTypeReducedImage
                                 ELSE subfileTypeNone,
                 !.ImageWidth = w, !.ImageHeight = h,
                 !.BitsPerSample = [i \in 1..spp |-> IF m THEN 1 ELSE 8],
                 !.Compression = 5,
                 !.PhotometricInterpretation = IF m THEN 4 ELSE IF spp = 3 THEN 2 ELSE 1,
                 !.SamplesPerPixel = spp, !.PlanarConfiguration = pcfg,
                 !.TileWidth = 16, !.TileHeight = 16,
                 !.TileOffsets = [i \in 1..ntiles |-> 8 + i],
                 !.TileByteCounts =
                    [i \in 1..ntiles |-> ByteCount(sh.bytes, lvl, m, i - 1, ntiles)],
                 !.LoadTile = 2 * lvl + (IF m THEN 1 ELSE 0) + 1]
  IN CASE sh.tags = "min" -> base
       [] sh.tags = "geo" ->
            [base EXCEPT
               !.DateTime = [i \in 1..19 |-> 48],
               !.SampleFormat = [i \in 1..spp |-> 1],
               !.ModelPixelScaleTag = <<1, 1, 0>>,
               !.ModelTiePointTag = <<0, 0, 0, 10, 20, 0>>,
               !.GeoKeyDirectoryTag = <<1, 1, 0, 0>>,
               !.GeoAsciiParamsTag = <<87, 71, 83, 32, 56, 52, 124>>,
               !.GDALMetaData = [i \in 1..10 |-> 60],
               !.NoData = <<48>>]

\* The tree RewriteSplitted builds: the mask of the main image, then each
\* overview followed by its mask
RECURSIVE attachLevels(_, _, _)
attachLevels(sh, t, k) ==
  IF k > sh.n THEN t
  ELSE LET a == AddOverview(t, RawIFD(sh, k, FALSE)).ifd
           b == IF sh.mask = "all"
                  THEN [a EXCEPT !.overviews[k] = AddMask(@, RawIFD(sh, k, TRUE)).ifd]
                ELSE a
       IN attachLevels(sh, b, k + 1)

BuildTree(sh) ==
  LET main == RawIFD(sh, 0, FALSE)
      m1 == IF sh.mask = "none" THEN main ELSE AddMask(main, RawIFD(sh, 0, TRUE)).ifd
  IN attachLevels(sh, m1, 1)

\* Config values of library callers, and DefaultConfig
PlanarInterleavings ==
  { <<>>, << <<0>>, <<1>>, <<2>> >>, << <<0>>, <<3>>, <<2>>, <<1>> >>,
    << <<0, 1>>, <<2>> >> }

LibConfigs ==
  [ Encoding : {"BE"}, BigTIFF : BOOLEAN, PlanarInterleaving : PlanarInterleavings,
    WithGDALGhostArea : BOOLEAN ]

DefaultConfig ==
  [ Encoding |-> "LE", BigTIFF |-> FALSE, PlanarInterleaving |-> <<>>,
    WithGDALGhostArea |-> TRUE ]

\* the flags of the cogger command and whether its first input is a BigTIFF
CliFlags ==
  { f \in [ command : {TRUE}, keepBigtiff : BOOLEAN, forceBigtiff : BOOLEAN,
            skipGhostAreas : BOOLEAN, firstInputBigtiff : BOOLEAN ] :
      ~(f.keepBigtiff /\ f.forceBigtiff) }

\* a library caller: no command line, the first input of either version
NoFlags ==
  { f \in [ command : {FALSE}, keepBigtiff : {FALSE}, forceBigtiff : {FALSE},
            skipGhostAreas : {FALSE}, firstInputBigtiff : BOOLEAN ] : TRUE }

\* ------------------------------------------------------------------- state
VARIABLES
  pc,          \* where the call is
  flags,       \* the command's flags and whether the first input is a BigTIFF
  cfg,         \* the Config of the call
  ifd0,        \* the tree as built, before the rewrite touched it
  ifd,         \* the tree RewriteIFDTree works on
  cog,         \* the cog struct: enc, bigtiff, withGDALGhost
  dataOffset,  \* computeImageryOffsets' running offset
  tilesCh,     \* what is still to be received from the tile channel
  assignLog,   \* the tiles in the order the last offset pass visited them
  strileData,  \* the strile buffer
  off,         \* RewriteIFDTree's running directory offset
  ovrI,        \* the index of the overview loop
  out,         \* the sink: the writes made so far
  err,         \* the error returned ("" for nil)
  restarts,    \* how often the offset pass restarted in BigTIFF mode
  startBig,    \* cog.bigtiff as RewriteIFDTree constructs it
  run,         \* 1, or 2 for the same rewrite repeated with BigTIFF forced
  prevOut,     \* the output of run 1
  failed,      \* the write to the sink, or the tile read, that failed ("" for none)
  lpc,         \* where the loader (or the caller of the tree API) is
  files,       \* the input files: the byte order and the IFDs of each
  ifds,        \* the IFDs the loader (or the caller) holds
  curOvr,      \* RewriteSplitted's current head: 0 the main image, k overview k
  ci,          \* the index of RewriteSplitted's loop
  lerr,        \* the error the loader returned ("" for nil)
  call,        \* the last call of the tree API and what it returned
  stripper,    \* the Stripper: its options, its image size and its pyramid
  stripIdx     \* the last call of tileStripIdx and what it returned

\* the variables of the rewrite and those of the loader
rvars == << pc, flags, cfg, ifd0, ifd, cog, dataOffset, tilesCh, assignLog,
            strileData, off, ovrI, out, err, restarts, startBig, run, prevOut,
            failed >>
lvars == << lpc, files, ifds, curOvr, ci, lerr, call >>
svars == << stripper, stripIdx >>
vars == << rvars, lvars, svars >>

NoCall == [op |-> "", err |-> ""]
\* no loader is running
LoaderIdle ==
  /\ lpc = "idle"
  /\ files = <<>>
  /\ ifds = <<>>
  /\ curOvr = 0
  /\ ci = 0
  /\ lerr = ""
  /\ call = NoCall

NoStripper == [state |-> "none"]
NoStripIdx == [level |-> -1, x |-> 0, y |-> 0, strip |-> 0, stripx |-> 0, stripy |-> 0]
\* no Stripper exists
StripperIdle ==
  /\ stripper = NoStripper
  /\ stripIdx = NoStripIdx

OutLen(o) == IF o = <<>> THEN 0 ELSE Last(o).at + Last(o).len
Write(o, kind, len, d) ==
  Append(o, [kind |-> kind, at |-> OutLen(o), len |-> len, d |-> d])

NoCog == [enc |-> "LE", bigtiff |-> FALSE, withGDALGhost |-> FALSE]

Init ==
  /\ \E sh \in Shapes :
       /\ ifd0 = BuildTree(sh)
       /\ ifd = BuildTree(sh)
  /\ \/ /\ pc = "cli"
        /\ flags \in CliFlags
        /\ cfg = DefaultConfig
     \/ /\ pc = "rewrite"
        /\ flags \in NoFlags
        /\ cfg \in LibConfigs
  /\ cog = NoCog
  /\ dataOffset = 0
  /\ tilesCh = <<>>
  /\ assignLog = <<>>
  /\ strileData = NewTagData(0)
  /\ off = 0
  /\ ovrI = 0
  /\ out = <<>>
  /\ err = ""
  /\ restarts = 0
  /\ startBig = FALSE
  /\ run = 1
  /\ prevOut = <<>>
  /\ failed = ""
  /\ StripperIdle
  /\ LoaderIdle

\* ---------------------------------------------------------------- actions
\* commandConfig that keeps the first input's version without --keep-bigtiff
commandConfigKeepAlways(f) ==
  [DefaultConfig EXCEPT
     !.BigTIFF = f.firstInputBigtiff \/ f.forceBigtiff,
     !.WithGDALGhostArea = ~f.skipGhostAreas]

\* newRootCommand's RunE: the Config the command passes to Rewrite
commandConfig(f) ==
  [DefaultConfig EXCEPT
     !.BigTIFF = (f.keepBigtiff /\ f.firstInputBigtiff) \/ f.forceBigtiff,
     !.WithGDALGhostArea = ~f.skipGhostAreas]

RunE ==
  /\ pc = "cli"
  /\ UNCHANGED << lvars, failed, svars >>
  /\ cfg' = commandConfig(flags)
  /\ pc' = "rewrite"
  /\ UNCHANGED << flags, ifd0, ifd, cog, dataOffset, tilesCh, assignLog, strileData,
                  off, ovrI, out, err, restarts, startBig, run, prevOut >>

\* havePlanar that looks at PlanarConfiguration alone
havePlanarAnySamples(t) ==
  t.PlanarConfiguration = 2
    \/ \E i \in 1..Len(t.overviews) : t.overviews[i].PlanarConfiguration = 2

\* havePlanar of RewriteIFDTree
havePlanar(t) ==
  nPlanes(t) > 1 \/ \E i \in 1..Len(t.overviews) : nPlanes(t.overviews[i]) > 1

\* the cog struct RewriteIFDTree starts from
newCog(c, t) ==
  [enc |-> c.Encoding, bigtiff |-> c.BigTIFF,
   withGDALGhost |-> IF havePlanar(t) THEN FALSE ELSE c.WithGDALGhostArea]

\* "set all unset to default" over the overviews
RECURSIVE defaultOverviews(_, _)
defaultOverviews(t, i) ==
  IF i > Len(t.overviews) THEN t
  ELSE defaultOverviews(
         [t EXCEPT !.overviews[i] = setDefaultPlanarInterleaving(@).ifd], i + 1)

\* "set all unset to configured value" over the overviews: [err, ifd]
RECURSIVE configureOverviews(_, _, _)
configureOverviews(t, pi, i) ==
  IF i > Len(t.overviews) THEN [err |-> "", ifd |-> t]
  ELSE IF Len(t.overviews[i].planarInterleaving) # 0
    THEN configureOverviews(t, pi, i + 1)
  ELSE LET r == SetPlanarInterleaving(t.overviews[i], pi)
       IN IF r.err # ""
            THEN [err |-> "invalid planar interleaving for overview", ifd |-> t]
          ELSE configureOverviews([t EXCEPT !.overviews[i] = r.ifd], pi, i + 1)

\* the planar interleaving RewriteIFDTree leaves on the tree: [err, ifd]
applyPlanarInterleaving(c, t) ==
  IF Len(c.PlanarInterleaving) = 0
    THEN [err |-> "", ifd |-> defaultOverviews(setDefaultPlanarInterleaving(t).ifd, 1)]
  ELSE IF Len(t.planarInterleaving) # 0
    THEN configureOverviews(t, c.PlanarInterleaving, 1)
  ELSE LET r == SetPlanarInterleaving(t, c.PlanarInterleaving)
       IN IF r.err # "" THEN [err |-> "invalid planar interleaving", ifd |-> t]
          ELSE configureOverviews(r.ifd, c.PlanarInterleaving, 1)

\* the fresh newTileOffsets arrays of the whole tree
allocTree(t) ==
  LET a == allocOffsets(t)
  IN [a EXCEPT !.overviews = [i \in 1..Len(t.overviews) |-> allocOffsets(t.overviews[i])]]

\* RewriteIFDTree up to the call of computeImageryOffsets
Start ==
  /\ pc = "rewrite"
  /\ UNCHANGED << lvars, failed, svars >>
  /\ cog' = newCog(cfg, ifd)
  /\ startBig' = newCog(cfg, ifd).bigtiff
  /\ restarts' = 0
  /\ LET r == applyPlanarInterleaving(cfg, ifd)
     IN IF r.err # ""
          THEN /\ ifd' = r.ifd
               /\ err' = r.err
               /\ pc' = "done"
        ELSE /\ ifd' = allocTree(r.ifd)
             /\ err' = ""
             /\ pc' = "structure"
  /\ UNCHANGED << flags, cfg, ifd0, dataOffset, tilesCh, assignLog, strileData, off,
                  ovrI, out, run, prevOut >>

\* computeImageryOffsets up to its loop over the tiles
ComputeStructure ==
  /\ pc = "structure"
  /\ UNCHANGED << lvars, failed, svars >>
  /\ LET r == planTree(cog, ifd)
     IN /\ ifd' = r.ifd
        /\ IF r.err # ""
             THEN /\ err' = r.err
                  /\ pc' = "done"
                  /\ UNCHANGED << dataOffset, tilesCh, assignLog >>
           ELSE /\ dataOffset' = firstDataOffset(cog, r.ifd)
                /\ tilesCh' = tiles(r.ifd, ifdInterlacing(r.ifd))
                /\ assignLog' = <<>>
                /\ UNCHANGED err
                /\ pc' = "assign"
  /\ UNCHANGED << flags, cfg, ifd0, cog, strileData, off, ovrI, out, restarts,
                  startBig, run, prevOut >>

\* assignStep that never gives up the 32-bit layout
assignStepNoRestart(c, t, dOff, tl) ==
  LET x == Node(t, tl.lvl, tl.mask)
      tileidx == tileIdx(x, tl.x, tl.y, tl.plane)
  IN IF tileLen(x, tileidx) > 0
       THEN [restart |-> FALSE,
             dataOffset |-> dOff + x.TileByteCounts[tileidx + 1]
                              + (IF c.withGDALGhost THEN 8 ELSE 0),
             ifd |-> SetNewTileOffset(t, tl.lvl, tl.mask, tileidx, dOff)]
     ELSE [restart |-> FALSE, dataOffset |-> dOff,
           ifd |-> SetNewTileOffset(t, tl.lvl, tl.mask, tileidx, 0)]

\* assignStep that advances by the byte count only, also with the ghost area
assignStepBodyOnly(c, t, dOff, tl) ==
  LET x == Node(t, tl.lvl, tl.mask)
      tileidx == tileIdx(x, tl.x, tl.y, tl.plane)
      advance == dOff + x.TileByteCounts[tileidx + 1]
  IN IF tileLen(x, tileidx) > 0
       THEN IF ~c.bigtiff /\ dOff > MaxUint32
              THEN [restart |-> TRUE, dataOffset |-> dOff, ifd |-> t]
            ELSE [restart |-> FALSE, dataOffset |-> advance,
                  ifd |-> SetNewTileOffset(t, tl.lvl, tl.mask, tileidx, dOff)]
     ELSE [restart |-> FALSE, dataOffset |-> dOff,
           ifd |-> SetNewTileOffset(t, tl.lvl, tl.mask, tileidx, 0)]

\* One turn of the loop of computeImageryOffsets for the tile tl:
\* [restart, ifd, dataOffset]
assignStep(c, t, dOff, tl) ==
  LET x == Node(t, tl.lvl, tl.mask)
      tileidx == tileIdx(x, tl.x, tl.y, tl.plane)
      advance == dOff + x.TileByteCounts[tileidx + 1] + (IF c.withGDALGhost THEN 8 ELSE 0)
  IN IF tileLen(x, tileidx) > 0
       THEN IF c.bigtiff
              THEN [restart |-> FALSE, dataOffset |-> advance,
                    ifd |-> SetNewTileOffset(t, tl.lvl, tl.mask, tileidx, dOff)]
            ELSE IF dOff > MaxUint32
              THEN [restart |-> TRUE, dataOffset |-> dOff, ifd |-> t]
            ELSE [restart |-> FALSE, dataOffset |-> advance,
                  ifd |-> SetNewTileOffset(t, tl.lvl, tl.mask, tileidx, dOff)]
     ELSE [restart |-> FALSE, dataOffset |-> dOff,
           ifd |-> SetNewTileOffset(t, tl.lvl, tl.mask, tileidx, 0)]

AssignTile ==
  /\ pc = "assign"
  /\ UNCHANGED << lvars, failed, svars >>
  /\ tilesCh # <<>>
  /\ LET r == assignStep(cog, ifd, dataOffset, Head(tilesCh))
     IN IF r.restart
          THEN \* the channel is emptied, then computeImageryOffsets runs again
               /\ tilesCh' = <<>>
               /\ cog' = [cog EXCEPT !.bigtiff = TRUE]
               /\ restarts' = restarts + 1
               /\ pc' = "structure"
               /\ UNCHANGED << ifd, dataOffset, assignLog >>
        ELSE /\ ifd' = r.ifd
             /\ dataOffset' = r.dataOffset
             /\ tilesCh' = Tail(tilesCh)
             /\ assignLog' = Append(assignLog, Head(tilesCh))
             /\ UNCHANGED << cog, restarts, pc >>
  /\ UNCHANGED << flags, cfg, ifd0, strileData, off, ovrI, out, err, startBig, run,
                  prevOut >>

\* computeImageryOffsets returns nil; RewriteIFDTree places the strile arrays
AssignDone ==
  /\ pc = "assign"
  /\ UNCHANGED << lvars, failed, svars >>
  /\ tilesCh = <<>>
  /\ strileData' = NewTagData(strileOffset(cog, ifd))
  /\ pc' = "header"
  /\ UNCHANGED << flags, cfg, ifd0, ifd, cog, dataOffset, tilesCh, assignLog, off,
                  ovrI, out, err, restarts, startBig, run, prevOut >>

\* writeHeader with the ghost block written before the header
WriteHeaderGhostFirst ==
  /\ pc = "header"
  /\ UNCHANGED << lvars, failed, svars >>
  /\ LET g == IF cog.withGDALGhost
                THEN Write(out, "ghost", ghostBytes(cog, ifd), [mask |-> hasMask(ifd)])
              ELSE out
     IN out' = Write(g, "header", Len(headerBytes(cog, ifd)),
                     [bytes |-> headerBytes(cog, ifd)])
  /\ off' = (IF cog.bigtiff THEN 16 ELSE 8) + ghostBytes(cog, ifd)
  /\ pc' = "main"
  /\ UNCHANGED << flags, cfg, ifd0, ifd, cog, dataOffset, tilesCh, assignLog,
                  strileData, ovrI, err, restarts, startBig, run, prevOut >>

\* writeHeader: the header, then the ghost block
WriteHeader ==
  /\ pc = "header"
  /\ UNCHANGED << lvars, failed, svars >>
  /\ LET h == Write(out, "header", Len(headerBytes(cog, ifd)),
                    [bytes |-> headerBytes(cog, ifd)])
     IN out' = IF cog.withGDALGhost
                 THEN Write(h, "ghost", ghostBytes(cog, ifd), [mask |-> hasMask(ifd)])
               ELSE h
  /\ off' = (IF cog.bigtiff THEN 16 ELSE 8) + ghostBytes(cog, ifd)
  /\ pc' = "main"
  /\ UNCHANGED << flags, cfg, ifd0, ifd, cog, dataOffset, tilesCh, assignLog,
                  strileData, ovrI, err, restarts, startBig, run, prevOut >>

\* the sink after writeIFD wrote the directory of node (lvl, m)
WriteDir(o, lvl, m, r) ==
  Write(o, "ifd", r.len,
        [lvl |-> lvl, mask |-> m, count |-> r.d.count, entries |-> r.d.entries,
         next |-> r.d.next, overflow |-> r.d.overflow])

WriteMainIFD ==
  /\ pc = "main"
  /\ UNCHANGED << lvars, failed, svars >>
  /\ LET r == writeIFD(cog, ifd, off, strileData,
                       hasMask(ifd) \/ Len(ifd.overviews) > 0)
     IN /\ out' = WriteDir(out, 0, FALSE, r)
        /\ strileData' = r.striledata
  /\ off' = off + ifd.tagSize
  /\ ovrI' = 1
  /\ pc' = IF hasMask(ifd) THEN "mainmask" ELSE "ovr"
  /\ UNCHANGED << flags, cfg, ifd0, ifd, cog, dataOffset, tilesCh, assignLog, err,
                  restarts, startBig, run, prevOut >>

WriteMainMask ==
  /\ pc = "mainmask"
  /\ UNCHANGED << lvars, failed, svars >>
  /\ LET r == writeIFD(cog, ifd.mask[1], off, strileData, Len(ifd.overviews) > 0)
     IN /\ out' = WriteDir(out, 0, TRUE, r)
        /\ strileData' = r.striledata
  /\ off' = off + ifd.mask[1].tagSize
  /\ pc' = "ovr"
  /\ UNCHANGED << flags, cfg, ifd0, ifd, cog, dataOffset, tilesCh, assignLog, ovrI,
                  err, restarts, startBig, run, prevOut >>

\* the running offset after the directory of the overview oifd of t was written
offAfterOverview(t, oifd, o) == o + t.tagSize

WriteOverviewIFD ==
  /\ pc = "ovr"
  /\ UNCHANGED << lvars, failed, svars >>
  /\ ovrI <= Len(ifd.overviews)
  /\ LET oifd == ifd.overviews[ovrI]
         r == writeIFD(cog, oifd, off, strileData,
                       hasMask(oifd) \/ ovrI # Len(ifd.overviews))
     IN /\ out' = WriteDir(out, ovrI, FALSE, r)
        /\ strileData' = r.striledata
        /\ off' = offAfterOverview(ifd, oifd, off)
        /\ IF hasMask(oifd)
             THEN pc' = "ovrmask" /\ ovrI' = ovrI
           ELSE pc' = "ovr" /\ ovrI' = ovrI + 1
  /\ UNCHANGED << flags, cfg, ifd0, ifd, cog, dataOffset, tilesCh, assignLog, err,
                  restarts, startBig, run, prevOut >>

WriteOverviewMask ==
  /\ pc = "ovrmask"
  /\ UNCHANGED << lvars, failed, svars >>
  /\ LET oifd == ifd.overviews[ovrI]
         r == writeIFD(cog, oifd.mask[1], off, strileData, ovrI # Len(ifd.overviews))
     IN /\ out' = WriteDir(out, ovrI, TRUE, r)
        /\ strileData' = r.striledata
        /\ off' = off + oifd.mask[1].tagSize
  /\ ovrI' = ovrI + 1
  /\ pc' = "ovr"
  /\ UNCHANGED << flags, cfg, ifd0, ifd, cog, dataOffset, tilesCh, assignLog, err,
                  restarts, startBig, run, prevOut >>

\* out.Write(strileData.Bytes()), then the producer of the tiles is started
WriteStriles ==
  /\ pc = "ovr"
  /\ UNCHANGED << lvars, failed, svars >>
  /\ ovrI > Len(ifd.overviews)
  /\ out' = Write(out, "strile", strileData.len, [parts |-> strileData.parts])
  /\ tilesCh' = tiles(ifd, ifdInterlacing(ifd))
  /\ pc' = "tiles"
  /\ UNCHANGED << flags, cfg, ifd0, ifd, cog, dataOffset, assignLog, strileData, off,
                  ovrI, err, restarts, startBig, run, prevOut >>

\* tileWrite with the leader in the byte order of the file
tileWriteFileOrder(c, t, tl) ==
  LET x == Node(t, tl.lvl, tl.mask)
      idx == tileIdx(x, tl.x, tl.y, tl.plane)
      bc == tileLen(x, idx)
      leader == PutUint(c.enc, Uint32(bc), 4)
      data(j) == IF j < 4 THEN leader[j + 1] ELSE TileByte(x.LoadTile, idx, j - 4)
      trailer == [k \in 1..4 |-> data(bc + k - 1)]
  IN [len |-> IF c.withGDALGhost THEN bc + 8 ELSE bc,
      d |-> [tile |-> tl, idx |-> idx, bc |-> bc, src |-> x.LoadTile,
             leader |-> IF c.withGDALGhost THEN leader ELSE <<>>,
             trailer |-> IF c.withGDALGhost THEN trailer ELSE <<>>]]

\* What the loop over the tiles writes for tile tl of length bc > 0: the buffer
\* data holds the leader in data[0:4], the tile in data[4:4+bc] and the copy of
\* data[bc:4+bc] in data[4+bc:8+bc].
tileWrite(c, t, tl) ==
  LET x == Node(t, tl.lvl, tl.mask)
      idx == tileIdx(x, tl.x, tl.y, tl.plane)
      bc == tileLen(x, idx)
      leader == LEBytes(Uint32(bc), 4)
      data(j) == IF j < 4 THEN leader[j + 1] ELSE TileByte(x.LoadTile, idx, j - 4)
      trailer == [k \in 1..4 |-> data(bc + k - 1)]
  IN [len |-> IF c.withGDALGhost THEN bc + 8 ELSE bc,
      d |-> [tile |-> tl, idx |-> idx, bc |-> bc, src |-> x.LoadTile,
             leader |-> IF c.withGDALGhost THEN leader ELSE <<>>,
             trailer |-> IF c.withGDALGhost THEN trailer ELSE <<>>]]

WriteTile ==
  /\ pc = "tiles"
  /\ UNCHANGED << lvars, failed, svars >>
  /\ tilesCh # <<>>
  /\ LET tl == Head(tilesCh)
         x == Node(ifd, tl.lvl, tl.mask)
         w == tileWrite(cog, ifd, tl)
     IN out' = IF tileLen(x, tileIdx(x, tl.x, tl.y, tl.plane)) > 0
                 THEN Write(out, "tile", w.len, w.d)
               ELSE out
  /\ tilesCh' = Tail(tilesCh)
  /\ UNCHANGED << pc, flags, cfg, ifd0, ifd, cog, dataOffset, assignLog, strileData,
                  off, ovrI, err, restarts, startBig, run, prevOut >>

\* the channel is closed: RewriteIFDTree returns
Finish ==
  /\ pc = "tiles"
  /\ UNCHANGED << lvars, failed, svars >>
  /\ tilesCh = <<>>
  /\ pc' = "done"
  /\ UNCHANGED << flags, cfg, ifd0, ifd, cog, dataOffset, tilesCh, assignLog,
                  strileData, off, ovrI, out, err, restarts, startBig, run, prevOut >>

\* The caller repeats a rewrite that switched to BigTIFF on a tree built anew,
\* with Config.BigTIFF set, into a fresh sink.
Rerun ==
  /\ pc = "done"
  /\ UNCHANGED << lvars, failed, svars >>
  /\ run = 1
  /\ err = ""
  /\ restarts > 0
  /\ run' = 2
  /\ prevOut' = out
  /\ out' = <<>>
  /\ ifd' = ifd0
  /\ cfg' = [cfg EXCEPT !.BigTIFF = TRUE]
  /\ pc' = "rewrite"
  /\ UNCHANGED << flags, ifd0, cog, dataOffset, tilesCh, assignLog, strileData, off,
                  ovrI, err, restarts, startBig >>

Next ==
  \/ RunE
  \/ Start
  \/ ComputeStructure
  \/ AssignTile
  \/ AssignDone
  \/ WriteHeader
  \/ WriteMainIFD
  \/ WriteMainMask
  \/ WriteOverviewIFD
  \/ WriteOverviewMask
  \/ WriteStriles
  \/ WriteTile
  \/ Finish
  \/ Rerun

Spec == Init /\ [][Next]_vars

\* ------------------------------------------------------------------ loader
\* The most IFDs the inputs of one Rewrite hold together
MaxInputs == 3

\* The IFDs the input files hold: width, height, subfile type, samples per
\* pixel, and the lengths of TileByteCounts and TileOffsets
InputKinds ==
  { [w |-> 32, h |-> 32, typ |-> 0, spp |-> 1, nt |-> 4, no |-> 4],
    [w |-> 32, h |-> 32, typ |-> 0, spp |-> 1, nt |-> 2, no |-> 2],
    [w |-> 32, h |-> 32, typ |-> 4, spp |-> 1, nt |-> 4, no |-> 4],
    [w |-> 16, h |-> 16, typ |-> 0, spp |-> 1, nt |-> 1, no |-> 1],
    [w |-> 16, h |-> 16, typ |-> 1, spp |-> 1, nt |-> 1, no |-> 1],
    [w |-> 16, h |-> 16, typ |-> 1, spp |-> 3, nt |-> 1, no |-> 1],
    [w |-> 16, h |-> 16, typ |-> 5, spp |-> 1, nt |-> 1, no |-> 1],
    [w |-> 8, h |-> 32, typ |-> 1, spp |-> 1, nt |-> 2, no |-> 2],
    [w |-> 8, h |-> 8, typ |-> 1, spp |-> 1, nt |-> 0, no |-> 0] }

\* tiff.UnmarshalIFD of an IFD of kind k
UnmarshalIFD(k) ==
  [EmptyIFD EXCEPT
     !.SubfileType = k.typ, !.ImageWidth = k.w, !.ImageHeight = k.h,
     !.BitsPerSample = [i \in 1..k.spp |-> 8], !.Compression = 5,
     !.PhotometricInterpretation = IF k.spp = 3 THEN 2 ELSE 1,
     !.SamplesPerPixel = k.spp, !.PlanarConfiguration = 1,
     !.TileWidth = 16, !.TileHeight = 16,
     !.TileOffsets = [i \in 1..k.no |-> 8 + i],
     !.TileByteCounts = [i \in 1..k.nt |-> 3]]

\* The inputs of one call: the IFDs s in one file, or split after the first cut
\* of them between two files, the second of byte order o2
InputFiles(s, cut, o2) ==
  IF Len(s) = 0 THEN <<>>
  ELSE IF cut = Len(s) THEN << [order |-> "LE", ifds |-> s] >>
  ELSE << [order |-> "LE", ifds |-> SubSeq(s, 1, cut)],
          [order |-> o2, ifds |-> SubSeq(s, cut + 1, Len(s))] >>

\* loadIFD: [err, ifd].  id names the reader and directory LoadTile reads from.
loadIFD(k, id) ==
  LET u == UnmarshalIFD(k)
  IN IF Len(u.TileByteCounts) = 0 \/ Len(u.TileByteCounts) # Len(u.TileOffsets)
       THEN [err |-> "ifd is not tiled", ifd |-> u]
     ELSE [err |-> "", ifd |-> [u EXCEPT !.LoadTile = id]]

\* loadTIFFs from file ii on, acc the IFDs loaded so far: [err, ifds]
RECURSIVE loadTIFFsFrom(_, _, _)
loadTIFFsFrom(fs, ii, acc) ==
  IF ii > Len(fs) THEN [err |-> "", ifds |-> acc]
  ELSE IF ii > 1 /\ fs[ii].order # fs[1].order
    THEN [err |-> "inconsistent tif byte ordering", ifds |-> <<>>]
  ELSE LET tifds == fs[ii].ifds
           loaded == [i \in 1..Len(tifds) |-> loadIFD(tifds[i], Len(acc) + i)]
       IN IF \E i \in 1..Len(tifds) : loaded[i].err # ""
            THEN [err |-> "load ifd", ifds |-> <<>>]
          ELSE loadTIFFsFrom(fs, ii + 1, acc \o [i \in 1..Len(tifds) |-> loaded[i].ifd])

loadTIFFs(fs) == loadTIFFsFrom(fs, 1, <<>>)

\* a less function that compares the areas alone
sortLessByArea(a, b) ==
  a.ImageHeight * a.ImageWidth > b.ImageHeight * b.ImageWidth

\* the less function RewriteSplitted sorts with
sortLess(a, b) ==
  IF a.ImageHeight * a.ImageWidth # b.ImageHeight * b.ImageWidth
    THEN a.ImageHeight * a.ImageWidth > b.ImageHeight * b.ImageWidth
  ELSE a.SubfileType < b.SubfileType

RemoveAt(s, i) == SubSeq(s, 1, i - 1) \o SubSeq(s, i + 1, Len(s))

\* sort.Slice is not stable: every ordering of s that sortLess allows
RECURSIVE Sorted(_)
Sorted(s) ==
  IF s = <<>> THEN { <<>> }
  ELSE UNION { { <<s[i]>> \o t : t \in Sorted(RemoveAt(s, i)) } :
               i \in { i \in 1..Len(s) : \A j \in 1..Len(s) : ~sortLess(s[j], s[i]) } }

InitLoad ==
  /\ lpc = "load"
  /\ \E n \in 0..MaxInputs :
       \E s \in [1..n -> InputKinds], cut \in 1..Max(n, 1) :
         \E o2 \in IF cut < n THEN {"LE", "BE"} ELSE {"LE"} :
           files = InputFiles(s, cut, o2)
  /\ ifds = <<>>
  /\ curOvr = 0
  /\ ci = 0
  /\ lerr = ""
  /\ call = NoCall
  /\ pc = "idle"
  /\ flags \in { f \in NoFlags : ~f.firstInputBigtiff }
  /\ cfg = DefaultConfig
  /\ ifd0 = EmptyIFD
  /\ ifd = EmptyIFD
  /\ cog = NoCog
  /\ dataOffset = 0
  /\ tilesCh = <<>>
  /\ assignLog = <<>>
  /\ strileData = NewTagData(0)
  /\ off = 0
  /\ ovrI = 0
  /\ out = <<>>
  /\ err = ""
  /\ restarts = 0
  /\ startBig = FALSE
  /\ run = 1
  /\ prevOut = <<>>
  /\ failed = ""
  /\ StripperIdle

\* RewriteSplitted up to the sort: the readers are counted and loaded
LoadInputs ==
  /\ lpc = "load"
  /\ IF Len(files) = 0
       THEN /\ lerr' = "missing readers"
            /\ lpc' = "failed"
            /\ UNCHANGED ifds
     ELSE LET r == loadTIFFs(files)
          IN /\ ifds' = r.ifds
             /\ lerr' = IF r.err # "" THEN "load" ELSE ""
             /\ lpc' = IF r.err # "" THEN "failed" ELSE "sort"
  /\ UNCHANGED << files, curOvr, ci, call >>
  /\ UNCHANGED << rvars, svars >>

\* the sort, and the test of the first IFD
SortIFDs ==
  /\ lpc = "sort"
  /\ \E s \in Sorted(ifds) :
       /\ ifds' = s
       /\ IF s[1].SubfileType # 0
            THEN /\ lerr' = "failed sort"
                 /\ lpc' = "failed"
          ELSE /\ lerr' = ""
               /\ lpc' = "walk"
  /\ curOvr' = 0
  /\ ci' = 2
  /\ UNCHANGED << files, call >>
  /\ UNCHANGED << rvars, svars >>

\* the IFD curOvr points at
headOf(t, k) == IF k = 0 THEN t ELSE t.overviews[k]

\* one round of the loop over ifds[1:]; ifds[0] (here ifds[1]) carries the tree
WalkStep ==
  /\ lpc = "walk"
  /\ ci <= Len(ifds)
  /\ LET c == ifds[ci]
         t == ifds[1]
         head == headOf(t, curOvr)
     IN IF c.ImageHeight = head.ImageHeight /\ c.ImageWidth = head.ImageWidth
          THEN LET r == AddMask(head, c)
               IN /\ ifds' = [ifds EXCEPT
                                ![1] = IF curOvr = 0 THEN r.ifd
                                       ELSE [t EXCEPT !.overviews[curOvr] = r.ifd],
                                ![ci] = r.msk]
                  /\ call' = [op |-> "AddMask", err |-> r.err]
                  /\ lerr' = IF r.err # "" THEN "failed to add overview/mask" ELSE ""
                  /\ lpc' = IF r.err # "" THEN "failed" ELSE "walk"
                  /\ UNCHANGED curOvr
        ELSE LET r == AddOverview(t, c)
             IN /\ ifds' = [ifds EXCEPT ![1] = r.ifd, ![ci] = r.ovr]
                /\ call' = [op |-> "AddOverview", err |-> r.err]
                /\ lerr' = IF r.err # "" THEN "failed to add overview/mask" ELSE ""
                /\ lpc' = IF r.err # "" THEN "failed" ELSE "walk"
                /\ curOvr' = IF r.err # "" THEN curOvr
                             ELSE CHOOSE k \in 1..Len(r.ifd.overviews) :
                                    r.ifd.overviews[k].LoadTile = c.LoadTile
  /\ ci' = ci + 1
  /\ UNCHANGED files
  /\ UNCHANGED << rvars, svars >>

\* the loop is over: ifds[0] goes to RewriteIFDTreeSplitted
WalkDone ==
  /\ lpc = "walk"
  /\ ci > Len(ifds)
  /\ lpc' = "built"
  /\ UNCHANGED << files, ifds, curOvr, ci, lerr, call >>
  /\ UNCHANGED << rvars, svars >>

NextLoad ==
  \/ LoadInputs
  \/ SortIFDs
  \/ WalkStep
  \/ WalkDone

SpecLoad == InitLoad /\ [][NextLoad]_vars

\* ---------------------------------------------------------------- tree API
\* A library caller holds IFDs and calls AddOverview, AddMask,
\* SetPlanarInterleaving and RewriteIFDTree on them in any order.
\* The most groups a stored PlanarInterleaving grows to
MaxGroups == 6

\* The IFDs a caller holds from the start: size, subfile type, samples,
\* bits-per-sample entries, planar configuration, tile width, tile count, and
\* whether the geo/GDAL tags are set
HeldKinds ==
  << [w |-> 32, h |-> 32, typ |-> 0, spp |-> 1, bps |-> 1, pcfg |-> 1, tw |-> 16,
      nt |-> 4, geo |-> FALSE],
     [w |-> 32, h |-> 32, typ |-> 0, spp |-> 3, bps |-> 3, pcfg |-> 2, tw |-> 16,
      nt |-> 12, geo |-> FALSE],
     [w |-> 16, h |-> 16, typ |-> 0, spp |-> 1, bps |-> 1, pcfg |-> 1, tw |-> 16,
      nt |-> 1, geo |-> TRUE],
     [w |-> 16, h |-> 16, typ |-> 0, spp |-> 3, bps |-> 3, pcfg |-> 2, tw |-> 16,
      nt |-> 3, geo |-> FALSE],
     [w |-> 16, h |-> 16, typ |-> 0, spp |-> 1, bps |-> 2, pcfg |-> 1, tw |-> 16,
      nt |-> 1, geo |-> FALSE],
     [w |-> 16, h |-> 16, typ |-> 4, spp |-> 1, bps |-> 1, pcfg |-> 1, tw |-> 16,
      nt |-> 1, geo |-> FALSE],
     [w |-> 8, h |-> 32, typ |-> 1, spp |-> 1, bps |-> 1, pcfg |-> 1, tw |-> 16,
      nt |-> 2, geo |-> FALSE],
     [w |-> 8, h |-> 8, typ |-> 1, spp |-> 1, bps |-> 1, pcfg |-> 1, tw |-> 16,
      nt |-> 1, geo |-> FALSE] >>

\* The IFDs a caller makes up to pass as a mask
MaskKinds ==
  << [w |-> 32, h |-> 32, typ |-> 4, spp |-> 1, bps |-> 1, pcfg |-> 1, tw |-> 16,
      nt |-> 4, geo |-> TRUE],
     [w |-> 32, h |-> 32, typ |-> 4, spp |-> 1, bps |-> 1, pcfg |-> 1, tw |-> 32,
      nt |-> 4, geo |-> FALSE],
     [w |-> 32, h |-> 32, typ |-> 4, spp |-> 1, bps |-> 2, pcfg |-> 1, tw |-> 16,
      nt |-> 4, geo |-> FALSE],
     [w |-> 32, h |-> 32, typ |-> 4, spp |-> 1, bps |-> 1, pcfg |-> 1, tw |-> 16,
      nt |-> 2, geo |-> FALSE],
     [w |-> 16, h |-> 16, typ |-> 4, spp |-> 1, bps |-> 1, pcfg |-> 1, tw |-> 16,
      nt |-> 1, geo |-> TRUE] >>

\* the IFD of kind k; id names what its LoadTile reads
HeldIFD(k, id) ==
  LET base == [EmptyIFD EXCEPT
                 !.SubfileType = k.typ, !.ImageWidth = k.w, !.ImageHeight = k.h,
                 !.BitsPerSample = [i \in 1..k.bps |-> 8], !.Compression = 5,
                 !.PhotometricInterpretation = IF k.spp = 3 THEN 2 ELSE 1,
                 !.SamplesPerPixel = k.spp, !.PlanarConfiguration = k.pcfg,
                 !.TileWidth = k.tw, !.TileHeight = 16,
                 !.TileOffsets = [i \in 1..k.nt |-> 8 + i],
                 !.TileByteCounts = [i \in 1..k.nt |-> 3],
                 !.LoadTile = id]
  IN IF k.geo
       THEN [base EXCEPT
               !.ModelPixelScaleTag = <<1, 1, 0>>,
               !.ModelTiePointTag = <<0, 0, 0, 10, 20, 0>>,
               !.ModelTransformationTag = [i \in 1..16 |-> 1],
               !.GeoKeyDirectoryTag = <<1, 1, 0, 0>>,
               !.GeoDoubleParamsTag = <<1>>,
               !.GeoAsciiParamsTag = <<87, 71, 83, 32, 56, 52, 124>>,
               !.GDALMetaData = [i \in 1..10 |-> 60],
               !.NoData = <<48>>,
               !.RPCs = [i \in 1..4 |-> 1]]
     ELSE base

\* What a caller holds from the start, by the positions in HeldKinds: an image
\* with two overviews to attach, with an overview that is not smaller in both
\* dimensions, with overviews of other sample layouts, planar images, and IFDs
\* of one size
CallerPools ==
  { <<1, 3, 8>>, <<1, 7, 3>>, <<1, 5, 4>>, <<2, 4, 8>>, <<3, 6, 5>> }

\* the PlanarInterleaving values the caller passes
CallerInterleavings ==
  { << <<0>>, <<1>>, <<2>> >>, << <<0, 3>>, <<2>>, <<1>> >>, << <<0>>, <<0>>, <<1>>, <<2>> >> }

InitTree ==
  /\ lpc = "api"
  /\ files = <<>>
  /\ \E s \in CallerPools : ifds = [i \in 1..Len(s) |-> HeldIFD(HeldKinds[s[i]], i)]
  /\ curOvr = 0
  /\ ci = 0
  /\ lerr = ""
  /\ call = NoCall
  /\ pc = "idle"
  /\ flags \in { f \in NoFlags : ~f.firstInputBigtiff }
  /\ cfg = DefaultConfig
  /\ ifd0 = EmptyIFD
  /\ ifd = EmptyIFD
  /\ cog = NoCog
  /\ dataOffset = 0
  /\ tilesCh = <<>>
  /\ assignLog = <<>>
  /\ strileData = NewTagData(0)
  /\ off = 0
  /\ ovrI = 0
  /\ out = <<>>
  /\ err = ""
  /\ restarts = 0
  /\ startBig = FALSE
  /\ run = 1
  /\ prevOut = <<>>
  /\ failed = ""
  /\ StripperIdle

\* the IFDs the caller can reach: the ones it holds (k = 0) and, through the
\* pointers it kept, their attached overviews (k > 0)
Reachable ==
  UNION { { <<i, k>> : k \in 0..Len(ifds[i].overviews) } : i \in 1..Len(ifds) }
\* the held IFDs with the one at path p replaced by v
Replaced(s, p, v) ==
  [s EXCEPT ![p[1]] = IF p[2] = 0 THEN v ELSE [@ EXCEPT !.overviews[p[2]] = v]]

\* p.AddOverview(ifds[j]): an attached candidate is reached through p from then on
CallAddOverview ==
  /\ lpc = "api"
  /\ \E p \in Reachable, j \in 1..Len(ifds) :
       /\ j # p[1]
       /\ LET recv == headOf(ifds[p[1]], p[2])
              r == AddOverview(recv, ifds[j])
              s == Replaced(ifds, p, r.ifd)
          IN /\ ifds' = IF r.err = "" THEN RemoveAt(s, j) ELSE [s EXCEPT ![j] = r.ovr]
             /\ call' = [op |-> "AddOverview", err |-> r.err]
  /\ UNCHANGED << lpc, files, curOvr, ci, lerr >>
  /\ UNCHANGED << rvars, svars >>

\* the masks the caller can pass to p: a held IFD, or one it makes up
MaskCandidates(p) ==
  { [held |-> j, ifd |-> ifds[j]] : j \in (1..Len(ifds)) \ {p[1]} }
    \cup { [held |-> 0, ifd |-> HeldIFD(MaskKinds[m], Len(HeldKinds) + m)] :
            m \in 1..Len(MaskKinds) }

\* p.AddMask(msk)
CallAddMask ==
  /\ lpc = "api"
  /\ \E p \in Reachable :
       \E c \in MaskCandidates(p) :
         LET recv == headOf(ifds[p[1]], p[2])
             r == AddMask(recv, c.ifd)
             s == Replaced(ifds, p, r.ifd)
         IN /\ ifds' = IF r.err = "" /\ c.held > 0 THEN RemoveAt(s, c.held) ELSE s
            /\ call' = [op |-> "AddMask", err |-> r.err]
  /\ UNCHANGED << lpc, files, curOvr, ci, lerr >>
  /\ UNCHANGED << rvars, svars >>

\* p.SetPlanarInterleaving(pi)
CallSetPlanarInterleaving ==
  /\ lpc = "api"
  /\ \E p \in Reachable, pi \in CallerInterleavings :
       LET recv == headOf(ifds[p[1]], p[2])
           r == SetPlanarInterleaving(recv, pi)
       IN /\ Len(recv.planarInterleaving) + Len(pi) <= MaxGroups
          /\ ifds' = Replaced(ifds, p, r.ifd)
          /\ call' = [op |-> "SetPlanarInterleaving", err |-> r.err]
  /\ UNCHANGED << lpc, files, curOvr, ci, lerr >>
  /\ UNCHANGED << rvars, svars >>

\* Config{PlanarInterleaving: pi}.RewriteIFDTree(ifds[i], out): what it leaves
\* on the tree that the tree API reads, its planar interleavings
CallRewriteIFDTree ==
  /\ lpc = "api"
  /\ \E i \in 1..Len(ifds), pi \in {<<>>, << <<0>>, <<1>>, <<2>> >>} :
       LET r == applyPlanarInterleaving([DefaultConfig EXCEPT !.PlanarInterleaving = pi],
                                        ifds[i])
       IN /\ ifds' = [ifds EXCEPT ![i] = r.ifd]
          /\ call' = [op |-> "RewriteIFDTree", err |-> r.err]
  /\ UNCHANGED << lpc, files, curOvr, ci, lerr >>
  /\ UNCHANGED << rvars, svars >>

NextTree ==
  \/ CallAddOverview
  \/ CallAddMask
  \/ CallSetPlanarInterleaving
  \/ CallRewriteIFDTree

SpecTree == InitTree /\ [][NextTree]_vars

\* ------------------------------------------------------ views of the output
\* the rewrite returned nil
Finished == pc = "done" /\ err = ""

\* the IFDs of a tree: level and whether it is the level's mask
Nodes(t) ==
  { nd \in [lvl : 0..Len(t.overviews), mask : BOOLEAN] :
      nd.mask => hasMask(Node(t, nd.lvl, FALSE)) }

\* the positions in the sink of the directories written for node (lvl, m)
DirsOf(o, lvl, m) ==
  { i \in 1..Len(o) : o[i].kind = "ifd" /\ o[i].d.lvl = lvl /\ o[i].d.mask = m }

\* the entry of tag tg in a written directory
EntryOf(d, tg) ==
  d.entries[CHOOSE k \in 1..Len(d.entries) : d.entries[k].tag = tg]

\* the TileOffsets array as written for node (lvl, m)
EmittedTileOffsets(o, lvl, m) ==
  EntryOf(o[CHOOSE i \in DirsOf(o, lvl, m) : TRUE].d, 324).vals

\* the positions in the sink of the writes made for tile idx of node (lvl, m)
TileWritesOf(o, lvl, m, idx) ==
  { i \in 1..Len(o) :
      o[i].kind = "tile" /\ o[i].d.tile.lvl = lvl /\ o[i].d.tile.mask = m
        /\ o[i].d.idx = idx }

\* the directories written, in the order of the sink
Dirs(o) == SelectSeq(o, LAMBDA r : r.kind = "ifd")

\* the order of the directories of a tree: each level followed by its mask
RECURSIVE DirOrder(_, _)
DirOrder(t, l) ==
  IF l > Len(t.overviews) THEN <<>>
  ELSE << [lvl |-> l, mask |-> FALSE] >>
         \o (IF hasMask(Node(t, l, FALSE)) THEN << [lvl |-> l, mask |-> TRUE] >> ELSE <<>>)
         \o DirOrder(t, l + 1)

\* the unsigned integer a reader decodes from the bytes b in byte order enc
RECURSIVE LEValue(_)
LEValue(b) == IF b = <<>> THEN 0 ELSE Head(b) + 256 * LEValue(Tail(b))
GetUint(enc, b) == IF enc = "LE" THEN LEValue(b) ELSE LEValue(Reverse(b))

\* the first-IFD offset a reader finds in the header bytes h
FirstIFDOffset(enc, h) ==
  IF GetUint(enc, SubSeq(h, 3, 4)) = 43 THEN GetUint(enc, SubSeq(h, 9, 16))
  ELSE GetUint(enc, SubSeq(h, 5, 8))

\* the place of a kind of write in the layout of the file
Rank(kind) ==
  CASE kind = "header" -> 1 [] kind = "ghost" -> 2 [] kind = "ifd" -> 3
    [] kind = "strile" -> 4 [] kind = "tile" -> 5

\* the sink holds the header, the ghost block, the directories, the strile
\* arrays and the tiles in this order, each write starting where the one before
\* it ended, and holds no tile before every directory and the strile arrays
PhaseOrdered ==
  /\ \A i \in 1..Len(out) :
       /\ out[i].at = (IF i = 1 THEN 0 ELSE out[i - 1].at + out[i - 1].len)
       /\ i > 1 => Rank(out[i - 1].kind) <= Rank(out[i].kind)
       /\ out[i].kind = "header" => i = 1
       /\ out[i].kind = "ghost" => i = 2
       /\ out[i].kind = "strile" => out[i - 1].kind = "ifd"
       /\ out[i].kind = "tile" =>
            /\ Len(Dirs(out)) = Cardinality(Nodes(ifd))
            /\ \E j \in 1..(i - 1) : out[j].kind = "strile"

\* a step leaves what the sink holds as it is and at most adds to its end
\* (a repeated rewrite starts on a sink of its own)
AppendOnly ==
  \/ run' # run
  \/ /\ Len(out') >= Len(out)
     /\ SubSeq(out', 1, Len(out)) = out

\* every tile of every IFD of a tree
AllTiles(t) ==
  UNION { { [lvl |-> nd.lvl, mask |-> nd.mask, plane |-> p, x |-> x, y |-> y] :
              p \in 0..(nPlanes(Node(t, nd.lvl, nd.mask)) - 1),
              x \in 0..(nTilesX(Node(t, nd.lvl, nd.mask)) - 1),
              y \in 0..(nTilesY(Node(t, nd.lvl, nd.mask)) - 1) } : nd \in Nodes(t) }

\* The place of a tile in the documented order: its level counted from the
\* smallest overview, the group of its level's PlanarInterleaving that lists its
\* plane (the mask counts as the plane after the last one), its row, its column
\* and the place of its plane in the group.
TileKey(t, tl) ==
  LET x0 == Node(t, tl.lvl, FALSE)
      pi == x0.planarInterleaving
      p == IF tl.mask THEN nPlanes(x0) ELSE tl.plane
      g == CHOOSE g \in 1..Len(pi) : \E k \in 1..Len(pi[g]) : pi[g][k] = p
      k == CHOOSE k \in 1..Len(pi[g]) : pi[g][k] = p
  IN << Len(t.overviews) - tl.lvl, g, tl.y, tl.x, k >>

\* a comes before b in lexicographic order
LexLess(a, b) ==
  \E i \in 1..Len(a) : a[i] < b[i] /\ \A j \in 1..(i - 1) : a[j] = b[j]

\* s lists tiles in strictly increasing place of the documented order
InTileOrder(t, s) ==
  \A i \in 1..(Len(s) - 1) : LexLess(TileKey(t, s[i]), TileKey(t, s[i + 1]))

\* the tiles whose bodies were written, in the order of the sink
TilesWritten(o) ==
  LET w == SelectSeq(o, LAMBDA r : r.kind = "tile")
  IN [i \in 1..Len(w) |-> w[i].d.tile]

\* the tiles of the main image among s, as plane and row-major position
MainPlanes(t, s) ==
  LET m == SelectSeq(s, LAMBDA tl : tl.lvl = 0)
  IN [i \in 1..Len(m) |-> << m[i].plane, m[i].y * nTilesX(t) + m[i].x >>]

\* the byte count of a tile and the offset the offset pass gave it
TileBytes(t, tl) ==
  LET x == Node(t, tl.lvl, tl.mask)
  IN tileLen(x, tileIdx(x, tl.x, tl.y, tl.plane))
NewOffset(t, tl) ==
  LET x == Node(t, tl.lvl, tl.mask)
  IN x.newTileOffsets[tileIdx(x, tl.x, tl.y, tl.plane) + 1]

\* the non-sparse tiles among those the current offset pass has visited
Assigned == SelectSeq(assignLog, LAMBDA tl : TileBytes(ifd, tl) > 0)

\* the offset pass is under way or over
OffsetsValid ==
  pc \in {"assign", "header", "main", "mainmask", "ovr", "ovrmask", "tiles"} \/ Finished

\* the positions in the sink of the tile writes
TileWrites(o) == { i \in 1..Len(o) : o[i].kind = "tile" }

\* byte j (0-based) of the body the tile write w carries
BodyByte(w, j) == TileByte(w.d.src, w.d.idx, j)

\* In the 32-bit layout every offset given to a tile fits 32 bits, every body
\* in the sink starts at or before byte 2^32-1, and a rewrite that switched to
\* BigTIFF is not in the 32-bit layout.
ClassicOffsetsFit ==
  /\ (OffsetsValid /\ ~cog.bigtiff) =>
       /\ \A i \in 1..Len(Assigned) : NewOffset(ifd, Assigned[i]) <= MaxUint32
       /\ \A i \in TileWrites(out) : out[i].at + Len(out[i].d.leader) <= MaxUint32
       /\ restarts = 0
  /\ restarts > 0 => cog.bigtiff /\ ~startBig

\* The offset pass restarts exactly in a step that, not in BigTIFF mode, is about
\* to give an offset above 2^32-1 to a non-sparse tile; the step sets BigTIFF
\* mode and goes back to the structure pass.
RestartRule ==
  LET due == /\ pc = "assign"
             /\ tilesCh # <<>>
             /\ ~cog.bigtiff
             /\ TileBytes(ifd, Head(tilesCh)) > 0
             /\ dataOffset > MaxUint32
  IN /\ restarts' > restarts =>
          due /\ restarts' = restarts + 1 /\ cog'.bigtiff /\ pc' = "structure"
     /\ due => restarts' > restarts

\* ------------------------------------------------------------------ claims
\* C1: when the rewrite has returned without error, every tile with a non-zero
\* byte count was written exactly once and the offset the emitted TileOffsets
\* array holds for it is the number of bytes written before the first byte of
\* its body; a tile with a zero byte count has offset 0 and nothing was written
\* for it.
C1_OffsetsPointAtBodies ==
  Finished =>
    \A nd \in Nodes(ifd) :
      LET x == Node(ifd, nd.lvl, nd.mask)
          offs == EmittedTileOffsets(out, nd.lvl, nd.mask)
      IN /\ DirsOf(out, nd.lvl, nd.mask) # {}
         /\ Len(offs) = Len(x.TileByteCounts)
         /\ \A idx \in 0..(Len(x.TileByteCounts) - 1) :
              LET ws == TileWritesOf(out, nd.lvl, nd.mask, idx)
              IN IF x.TileByteCounts[idx + 1] > 0
                   THEN /\ Cardinality(ws) = 1
                        /\ \A i \in ws :
                             /\ out[i].d.bc = x.TileByteCounts[idx + 1]
                             /\ offs[idx + 1] = out[i].at + Len(out[i].d.leader)
                 ELSE offs[idx + 1] = 0 /\ ws = {}

\* a finished rewrite of a tree with overviews and masks, with the ghost area,
\* that wrote tiles and skipped sparse ones
C1_Witness ==
  /\ Finished
  /\ Len(ifd.overviews) > 0
  /\ hasMask(ifd)
  /\ cog.withGDALGhost
  /\ \E i \in 1..Len(out) : out[i].kind = "tile"
  /\ \E nd \in Nodes(ifd) :
       \E k \in 1..Len(Node(ifd, nd.lvl, nd.mask).TileByteCounts) :
         Node(ifd, nd.lvl, nd.mask).TileByteCounts[k] = 0

\* C2: when the rewrite has returned without error, the directories were written
\* in the order main, main.mask?, overview[0], overview[0].mask?, ..., the
\* first-IFD offset of the header is the position where the main directory
\* starts, each directory's next-IFD pointer is the position where the next
\* directory starts and the last directory's pointer is zero.
C2_ChainIntact ==
  Finished =>
    LET ds == Dirs(out)
    IN /\ [k \in 1..Len(ds) |-> [lvl |-> ds[k].d.lvl, mask |-> ds[k].d.mask]]
            = DirOrder(ifd, 0)
       /\ FirstIFDOffset(cog.enc, out[1].d.bytes) = ds[1].at
       /\ \A k \in 1..Len(ds) :
            ds[k].d.next = IF k = Len(ds) THEN 0 ELSE ds[k + 1].at

\* C3: the sink is written strictly forward: at every moment it holds the
\* header, the ghost block, all directories, the strile arrays and the tile
\* bodies in this order without gaps, no tile is in it before every directory
\* and the strile arrays are, no directory follows the strile arrays, and no
\* step changes anything written before.
C3_StrictlyForward == []PhaseOrdered /\ [][AppendOnly]_vars

\* tiles are being written after the header, the ghost block, the directories
\* of a tree with overviews and the strile arrays
C3_Witness ==
  /\ pc = "tiles"
  /\ Len(out) >= 7
  /\ out[1].kind = "header"
  /\ out[2].kind = "ghost"
  /\ Len(Dirs(out)) >= 3
  /\ out[Len(out)].kind = "tile"
  /\ out[Len(out) - 1].kind = "tile"

\* C4: the offset pass and the write pass visit the tiles in the same documented
\* order: levels from the smallest overview to the main image, within a level
\* the groups of its PlanarInterleaving in order, within a group the tile
\* positions row by row, at each position the planes of the group as listed,
\* the mask in the place of the mask index.  When the rewrite has returned
\* without error the offset pass has visited every tile of the tree exactly once
\* in this order, and the bodies in the sink are those of the visited non-sparse
\* tiles in the same order.  For three planes
\* without mask [[0,1,2]] gives r1,g1,b1,...,rn,gn,bn and [[0],[1],[2]] gives
\* r1..rn,g1..gn,b1..bn.
C4_TileOrder ==
  Finished =>
    /\ InTileOrder(ifd, assignLog)
    /\ Range(assignLog) = AllTiles(ifd)
    /\ Len(assignLog) = Cardinality(AllTiles(ifd))
    /\ LET n == nTilesX(ifd) * nTilesY(ifd)
           mp == MainPlanes(ifd, assignLog)
       IN /\ ifd.planarInterleaving = << <<0, 1, 2>> >> =>
               mp = [i \in 1..(3 * n) |-> << (i - 1) % 3, (i - 1) \div 3 >>]
          /\ ifd.planarInterleaving = << <<0>>, <<1>>, <<2>> >> =>
               mp = [i \in 1..(3 * n) |-> << (i - 1) \div n, (i - 1) % n >>]
    /\ TilesWritten(out) = Assigned

\* a finished rewrite of a three-plane tree with masks and overviews whose
\* PlanarInterleaving has several groups
C4_Witness ==
  /\ Finished
  /\ Len(ifd.overviews) > 0
  /\ hasMask(ifd)
  /\ nPlanes(ifd) = 3
  /\ Len(ifd.planarInterleaving) > 1
  /\ Len(TilesWritten(out)) > 3

\* C5: once the offset pass is over, along its sequence the offsets of the
\* non-sparse tiles increase strictly and leave room for each tile: a
\* non-sparse tile's offset plus its byte count plus 8 with the ghost area
\* (0 without) is at most the offset of the next non-sparse tile.
C5_OffsetsIncrease ==
  (pc = "header" \/ Finished) =>
    LET s == Assigned
        o == [i \in 1..Len(s) |-> NewOffset(ifd, s[i])]
        extra == IF cog.withGDALGhost THEN 8 ELSE 0
    IN \A i \in 1..(Len(s) - 1) :
         /\ o[i] < o[i + 1]
         /\ o[i] + TileBytes(ifd, s[i]) + extra <= o[i + 1]

\* a finished rewrite with the ghost area whose offset pass gave offsets to
\* non-sparse tiles on both sides of a sparse one
C5_Witness ==
  /\ Finished
  /\ cog.withGDALGhost
  /\ Len(Assigned) >= 3
  /\ \E i \in 2..(Len(assignLog) - 1) :
       /\ TileBytes(ifd, assignLog[i]) = 0
       /\ TileBytes(ifd, assignLog[i - 1]) > 0
       /\ TileBytes(ifd, assignLog[i + 1]) > 0

\* C6 as stated: with the ghost area every tile body in the sink is preceded by
\* its byte count as 4 little-endian bytes and followed by 4 bytes that are the
\* last 4 bytes of the body; without it only the body is written.
C6_TrailerIsBodyTail ==
  \A i \in TileWrites(out) :
    LET w == out[i]
    IN IF cog.withGDALGhost
         THEN /\ w.len = w.d.bc + 8
              /\ w.d.leader = LEBytes(w.d.bc, 4)
              /\ Len(w.d.trailer) = 4
              /\ \A k \in 1..4 :
                   /\ w.d.bc - 4 + (k - 1) >= 0
                   /\ w.d.trailer[k] = BodyByte(w, w.d.bc - 4 + (k - 1))
       ELSE w.len = w.d.bc /\ w.d.leader = <<>> /\ w.d.trailer = <<>>

\* C6, amended: with the ghost area every tile body in the sink is preceded by
\* its byte count as 4 little-endian bytes, whatever the byte order of the file,
\* and followed by a copy of the 4 bytes that precede the trailer, that is the
\* last 4 bytes of leader and body together: the last 4 bytes of the body when
\* it has at least 4 bytes, otherwise the last bytes of the leader followed by
\* the whole body.  Without the ghost area only the body is written.
C6_Framing ==
  \A i \in TileWrites(out) :
    LET w == out[i]
        bc == w.d.bc
    IN IF cog.withGDALGhost
         THEN /\ w.len = bc + 8
              /\ w.d.leader = LEBytes(bc, 4)
              /\ Len(w.d.trailer) = 4
              /\ \A k \in 1..4 :
                   w.d.trailer[k] =
                     IF bc - 4 + (k - 1) >= 0 THEN BodyByte(w, bc - 4 + (k - 1))
                     ELSE LEBytes(bc, 4)[bc + k]
       ELSE w.len = bc /\ w.d.leader = <<>> /\ w.d.trailer = <<>>

\* a big-endian rewrite with the ghost area has written a tile shorter than 4
\* bytes and a tile of at least 4 bytes
C6_Witness ==
  /\ cog.withGDALGhost
  /\ cog.enc = "BE"
  /\ \E i \in TileWrites(out) : out[i].d.bc < 4
  /\ \E i \in TileWrites(out) : out[i].d.bc >= 4

\* C7 as stated: an output left in the 32-bit layout never extends beyond
\* 2^32-1 bytes.
C7_ClassicFileFits ==
  (Finished /\ ~cog.bigtiff) => OutLen(out) <= MaxUint32

\* C7, amended: a rewrite that is not in BigTIFF mode restarts in BigTIFF mode
\* exactly when the running data offset exceeds 2^32-1 at the moment a
\* non-sparse tile is about to receive it as its offset; in an output left in
\* the 32-bit layout every tile offset is therefore at most 2^32-1 (the last
\* non-sparse tile may still end beyond 2^32-1).
C7_RestartBeforeOffsetOverflows == []ClassicOffsetsFit /\ [][RestartRule]_vars

\* a rewrite that started in the 32-bit layout, switched to BigTIFF and finished
C7_Witness ==
  /\ Finished
  /\ restarts = 1
  /\ ~startBig
  /\ cog.bigtiff
  /\ TileWrites(out) # {}

\* C8: the offset pass switches to BigTIFF at most once and a rewrite that
\* switched returns no error; its output starts with the byte-order mark of the
\* configured byte order and magic 43, and the same rewrite repeated with
\* BigTIFF set from the start writes exactly the same output.
C8_SwitchOnceSameOutput ==
  /\ restarts <= 1
  /\ restarts > 0 => err = ""
  /\ (Finished /\ restarts > 0) =>
       /\ SubSeq(out[1].d.bytes, 1, 2)
            = (IF cfg.Encoding = "LE" THEN <<73, 73>> ELSE <<77, 77>>)
       /\ GetUint(cfg.Encoding, SubSeq(out[1].d.bytes, 3, 4)) = 43
  /\ (Finished /\ run = 2) => restarts = 0 /\ startBig /\ out = prevOut

\* the rewrite that switched to BigTIFF was repeated with BigTIFF set and finished
C8_Witness ==
  /\ Finished
  /\ run = 2
  /\ prevOut # <<>>
  /\ Len(ifd.overviews) > 0
  /\ TileWrites(out) # {}

\* C9 as stated: the offset computation starts in BigTIFF mode exactly when
\* BigTIFF is forced by the configuration or the first input is a BigTIFF.
C9_StartsBigIffForcedOrInput ==
  (run = 1 /\ pc \notin {"cli", "rewrite"}) =>
    (startBig <=> (IF flags.command THEN flags.forceBigtiff ELSE cfg.BigTIFF)
                    \/ flags.firstInputBigtiff)

\* C9, amended: the offset computation starts in BigTIFF mode exactly when
\* Config.BigTIFF is set; the command sets it exactly when --force-bigtiff is
\* given or --keep-bigtiff is given and the first input is a BigTIFF.  The
\* version of the first input alone does not make the rewrite start in BigTIFF.
C9_StartsBigIffConfigured ==
  (run = 1 /\ pc \notin {"cli", "rewrite"}) =>
    /\ startBig <=> cfg.BigTIFF
    /\ flags.command =>
         (cfg.BigTIFF <=>
            flags.forceBigtiff \/ (flags.keepBigtiff /\ flags.firstInputBigtiff))

\* the command, without --keep-bigtiff, rewrote a BigTIFF first input into a
\* classic file
C9_Witness ==
  /\ Finished
  /\ flags.command
  /\ flags.firstInputBigtiff
  /\ ~flags.keepBigtiff
  /\ ~startBig
  /\ ~cog.bigtiff
  /\ TileWrites(out) # {}

\* the sink holds the ghost block and every tile in it has leader and trailer,
\* or it holds no ghost block and no tile in it has either
GhostEmitted(on) ==
  /\ Len(out) >= 2 => (out[2].kind = "ghost" <=> on)
  /\ \A i \in TileWrites(out) :
       /\ Len(out[i].d.leader) = (IF on THEN 4 ELSE 0)
       /\ Len(out[i].d.trailer) = (IF on THEN 4 ELSE 0)

\* C10 as stated: if any IFD of the tree has PlanarConfiguration 2 the rewrite
\* emits no ghost block, leaders or trailers; otherwise it follows
\* WithGDALGhostArea.
C10_OffWithPlanarConfiguration ==
  pc \notin {"cli", "rewrite"} =>
    IF \E nd \in Nodes(ifd) : Node(ifd, nd.lvl, nd.mask).PlanarConfiguration = 2
      THEN GhostEmitted(FALSE)
    ELSE GhostEmitted(cfg.WithGDALGhostArea)

\* C10, amended: if the main image or an overview has more than one plane
\* (PlanarConfiguration 2 and more than one sample per pixel) the rewrite emits
\* no ghost block, leaders or trailers; otherwise, a single-sample IFD with
\* PlanarConfiguration 2 included, it follows WithGDALGhostArea.
C10_OffWithSeveralPlanes ==
  pc \notin {"cli", "rewrite"} =>
    /\ cog.withGDALGhost
         = (cfg.WithGDALGhostArea
              /\ ~\E nd \in Nodes(ifd) : ~nd.mask /\ nPlanes(Node(ifd, nd.lvl, FALSE)) > 1)
    /\ GhostEmitted(cog.withGDALGhost)

\* a finished rewrite of single-sample IFDs with PlanarConfiguration 2 that
\* wrote the ghost block and framed its tiles
C10_Witness ==
  /\ Finished
  /\ ifd.PlanarConfiguration = 2
  /\ cfg.WithGDALGhostArea
  /\ out[2].kind = "ghost"
  /\ \E i \in TileWrites(out) : Len(out[i].d.leader) = 4

\* ---- the loader's tree (SpecLoad)
Area(x) == x.ImageWidth * x.ImageHeight
SameSize(a, b) == a.ImageWidth = b.ImageWidth /\ a.ImageHeight = b.ImageHeight

\* the sort just ran: nothing of ifds was attached yet
JustSorted == (lpc = "walk" /\ ci = 2) \/ lerr = "failed sort"

\* ifds holds every loaded IFD once, largest area first and, within one area,
\* lowest subfile type first
SortedInputs ==
  LET loaded == loadTIFFs(files).ifds
  IN /\ Len(ifds) = Len(loaded)
     /\ \A id \in 1..Len(loaded) : \E i \in 1..Len(ifds) : ifds[i] = loaded[id]
     /\ \A i, j \in 1..Len(ifds) :
          i < j => /\ Area(ifds[i]) >= Area(ifds[j])
                   /\ Area(ifds[i]) = Area(ifds[j])
                        => ifds[i].SubfileType <= ifds[j].SubfileType

\* the positions of the sorted list that start a new level: the first, and
\* every IFD whose size differs from its predecessor's
LevelStarts(s) == {1} \cup { i \in 2..Len(s) : ~SameSize(s[i], s[i - 1]) }
\* the position that starts level k (0: the main image)
LevelStart(s, k) ==
  CHOOSE i \in LevelStarts(s) : Cardinality({ j \in LevelStarts(s) : j < i }) = k
\* the positions after i that belong to the level started at i
LevelMasks(s, i) ==
  { j \in (i + 1)..Len(s) : \A m \in (i + 1)..j : m \notin LevelStarts(s) }

\* the tree t is the one the walk over the sorted list s builds
WalkedTree(t, s) ==
  /\ t.LoadTile = s[1].LoadTile
  /\ t.SubfileType = 0
  /\ Len(t.overviews) = Cardinality(LevelStarts(s)) - 1
  /\ \A k \in 0..Len(t.overviews) :
       LET i == LevelStart(s, k)
           x == headOf(t, k)
       IN /\ x.LoadTile = s[i].LoadTile
          /\ SameSize(x, s[i])
          /\ IF LevelMasks(s, i) = {} THEN ~hasMask(x)
             ELSE /\ hasMask(x)
                  /\ x.mask[1].LoadTile =
                       s[CHOOSE j \in LevelMasks(s, i) :
                           \A m \in LevelMasks(s, i) : m <= j].LoadTile

\* C11: Rewrite orders the IFDs of its inputs by decreasing width x height and
\* then increasing subfile type, fails with "failed sort" when the first is not
\* of subfile type 0, makes the first the main image and walks the rest: an
\* IFD of the size of the current head becomes the mask of that head, any other
\* one the next overview of the main image and the new head; an attachment
\* error aborts the call.
C11_SortAndWalk ==
  /\ JustSorted => SortedInputs
  /\ lerr = "failed sort" <=> (JustSorted /\ ifds[1].SubfileType # 0)
  /\ lpc = "built" => WalkedTree(ifds[1], ifds)
  /\ lpc \in {"walk", "built"} => call.err = "" /\ lerr = ""
  /\ call.err # "" => lpc = "failed" /\ lerr = "failed to add overview/mask"

C11_Witness ==
  /\ lpc = "built"
  /\ Len(files) = 2
  /\ files[1].ifds[1].typ = 5
  /\ Len(ifds) = 3
  /\ Len(ifds[1].overviews) = 1
  /\ hasMask(ifds[1].overviews[1])

\* the IFDs of the files after the first
LaterInputs == IF Len(files) < 2 THEN {} ELSE Range(files[2].ifds)

\* C12: when several files are given, Rewrite goes on to build the tree only
\* if every IFD of the files after the first is strictly smaller, in width and
\* in height, than the main image of the first file.
C12_LaterFilesAreSmaller ==
  lpc \in {"walk", "built"}
    => \A k \in LaterInputs :
         k.w < files[1].ifds[1].w /\ k.h < files[1].ifds[1].h

\* ---- the trees of the API (SpecTree)
\* the IFDs the caller can call the API on
Receivers == { headOf(ifds[p[1]], p[2]) : p \in Reachable }
\* the IFDs the caller holds
Held == Range(ifds)

\* the overview list ovs of x: each entry smaller than the one before it (the
\* first: than x) in width and in height, and of x's sample layout
OverviewsInOrder(x, ovs) ==
  \A k \in 1..Len(ovs) :
    LET prev == IF k = 1 THEN x ELSE ovs[k - 1]
    IN /\ ovs[k].ImageWidth < prev.ImageWidth
       /\ ovs[k].ImageHeight < prev.ImageHeight
       /\ ovs[k].SamplesPerPixel = x.SamplesPerPixel
       /\ Len(ovs[k].BitsPerSample) = Len(x.BitsPerSample)

\* C13: whatever AddOverview calls were made on an IFD, its overviews decrease
\* strictly in width and height from the IFD on and have its samples per pixel
\* and its number of bits-per-sample entries; a call whose candidate would
\* break this returns an error and leaves the IFD as it was, and an accepted
\* candidate is the new last overview.
C13_OverviewsDecrease ==
  /\ \A x \in Receivers : OverviewsInOrder(x, x.overviews)
  /\ \A x \in Receivers, o \in Held :
       LET r == AddOverview(x, o)
       IN /\ ~OverviewsInOrder(x, Append(x.overviews, o)) => r.err # "" /\ r.ifd = x
          /\ r.err # "" => r.ifd = x
          /\ r.err = "" => /\ Len(r.ifd.overviews) = Len(x.overviews) + 1
                           /\ Last(r.ifd.overviews) = r.ovr
                           /\ SubSeq(r.ifd.overviews, 1, Len(x.overviews)) = x.overviews

C13_Witness ==
  /\ call = [op |-> "AddOverview", err |-> ""]
  /\ \E x \in Held : Len(x.overviews) = 2

\* C14: in a tree built by AddMask and AddOverview calls in any order, under a
\* main image of subfile type 0, every overview has subfile type 1, the mask
\* of the main image has subfile type 4 and the mask of every overview has
\* subfile type 5.
C14_SubfileTypes ==
  \A x \in Held :
    x.SubfileType = subfileTypeNone =>
      /\ hasMask(x) => x.mask[1].SubfileType = subfileTypeMask
      /\ \A k \in 1..Len(x.overviews) :
           /\ x.overviews[k].SubfileType = subfileTypeReducedImage
           /\ hasMask(x.overviews[k]) =>
                x.overviews[k].mask[1].SubfileType
                  = subfileTypeMask + subfileTypeReducedImage

\* the IFDs attached in the trees the caller holds: masks, overviews and the
\* masks of overviews
Attached ==
  UNION { Range(x.mask) \cup Range(x.overviews)
            \cup UNION { Range(x.overviews[k].mask) : k \in 1..Len(x.overviews) } :
          x \in Held }

\* the tags writeIFD emits for x
EmittedTags(x) ==
  { WriterTags[k].tag : k \in { k \in 1..Len(WriterTags) : Counted(x, WriterTags[k]) } }

\* ModelPixelScale, ModelTiePoint, ModelTransformation, GeoKeyDirectory,
\* GeoDoubleParams, GeoAsciiParams
GeoTagIds == {33550, 33922, 34264, 34735, 34736, 34737}
\* GDAL_METADATA, GDAL_NODATA, RPCCoefficients
GDALTagIds == {42112, 42113, 50844}

\* x as the caller set its GDAL_METADATA, GDAL_NODATA and RPCCoefficients
KeepsGDALTags(x, y) ==
  x.GDALMetaData = y.GDALMetaData /\ x.NoData = y.NoData /\ x.RPCs = y.RPCs

\* C15 as stated: an attached IFD carries none of the nine geo/GDAL tags, and
\* none is written in its directory.
C15_NoGeoOrGDALTags ==
  \A x \in Attached : EmittedTags(x) \cap (GeoTagIds \cup GDALTagIds) = {}

\* C15: an attached IFD carries none of the six georeferencing tags
\* (ModelPixelScale, ModelTiePoint, ModelTransformation, GeoKeyDirectory,
\* GeoDoubleParams, GeoAsciiParams) and none is written in its directory;
\* AddOverview and AddMask leave GDAL_METADATA, GDAL_NODATA and
\* RPCCoefficients on it as the caller set them.
C15_NoGeoTags ==
  /\ \A x \in Attached :
       /\ x.ModelPixelScaleTag = <<>> /\ x.ModelTiePointTag = <<>>
       /\ x.ModelTransformationTag = <<>> /\ x.GeoKeyDirectoryTag = <<>>
       /\ x.GeoDoubleParamsTag = <<>> /\ x.GeoAsciiParamsTag = <<>>
       /\ EmittedTags(x) \cap GeoTagIds = {}
  /\ \A p \in Reachable :
       LET x == headOf(ifds[p[1]], p[2])
       IN /\ \A o \in Held :
               LET r == AddOverview(x, o)
               IN r.err = "" => /\ KeepsGDALTags(Last(r.ifd.overviews), o)
                                /\ EmittedTags(Last(r.ifd.overviews)) \cap GeoTagIds = {}
          /\ \A c \in MaskCandidates(p) :
               LET r == AddMask(x, c.ifd)
               IN r.err = "" => /\ KeepsGDALTags(r.ifd.mask[1], c.ifd)
                                /\ EmittedTags(r.ifd.mask[1]) \cap GeoTagIds = {}

C15_Witness ==
  \E x \in Held :
    /\ hasMask(x)
    /\ GDALTagIds \subseteq EmittedTags(x.mask[1])
    /\ Len(x.overviews) > 0
    /\ GDALTagIds \subseteq EmittedTags(x.overviews[1])

\* m has what a mask of x must have
FitsAsMask(x, m) ==
  /\ ~hasMask(m)
  /\ Len(m.overviews) = 0
  /\ m.SamplesPerPixel = 1
  /\ Len(m.BitsPerSample) = 1
  /\ m.ImageWidth = x.ImageWidth /\ m.ImageHeight = x.ImageHeight
  /\ m.TileWidth = x.TileWidth /\ m.TileHeight = x.TileHeight
  /\ Len(m.TileByteCounts) * nPlanes(x) <= Len(x.TileByteCounts)
  /\ Len(x.TileByteCounts) < (Len(m.TileByteCounts) + 1) * nPlanes(x)

\* C16: AddMask attaches a mask only if it has no mask and no overviews, one
\* sample and one bits-per-sample entry, the parent's width, height and tile
\* size, and |parent.TileByteCounts| / nPlanes tiles; otherwise it returns an
\* error and the parent keeps the mask (or the absence of one) it had.
C16_MaskAccepted ==
  \A p \in Reachable :
    LET x == headOf(ifds[p[1]], p[2])
    IN \A c \in MaskCandidates(p) :
         LET r == AddMask(x, c.ifd)
         IN /\ r.err = "" => /\ FitsAsMask(x, c.ifd)
                             /\ hasMask(r.ifd)
                             /\ r.ifd.mask[1].LoadTile = c.ifd.LoadTile
            /\ ~FitsAsMask(x, c.ifd) => r.err # ""
            /\ r.err # "" => r.ifd.mask = x.mask

C16_Witness ==
  /\ call = [op |-> "AddMask", err |-> "incompatible mask structure"]
  /\ \E x \in Held : hasMask(x) /\ Len(x.overviews) > 0 /\ ~hasMask(x.overviews[1])

\* the PlanarInterleaving pi names every index of 0..n-1 once
NamesEachOnce(pi, n) ==
  LET flat == Flatten(pi)
  IN /\ Len(flat) = n
     /\ \A v \in 0..(n - 1) : \E i \in 1..Len(flat) : flat[i] = v

\* C17: the PlanarInterleaving stored on an IFD, once one is stored, names
\* each plane 0..nPlanes-1, and nPlanes when the IFD has a mask, exactly once,
\* whatever AddMask, SetPlanarInterleaving and RewriteIFDTree calls were made.
C17_StoredInterleavingValid ==
  \A x \in Receivers :
    x.planarInterleaving # <<>> =>
      NamesEachOnce(x.planarInterleaving, nPlanes(x) + (IF hasMask(x) THEN 1 ELSE 0))

\* ---- the tiles of a rewrite, whatever the interleaving (Spec)
\* the bodies a rewrite of the tree t has to write: one for each non-sparse
\* tile, read from the tile's own IFD
BodiesOf(t) ==
  { [tile |-> tl, src |-> Node(t, tl.lvl, tl.mask).LoadTile,
     idx |-> tileIdx(Node(t, tl.lvl, tl.mask), tl.x, tl.y, tl.plane),
     bc |-> TileBytes(t, tl)] : tl \in { a \in AllTiles(t) : TileBytes(t, a) > 0 } }

\* the bodies in the sink
BodiesWritten(o) ==
  { [tile |-> o[i].d.tile, src |-> o[i].d.src, idx |-> o[i].d.idx, bc |-> o[i].d.bc] :
      i \in TileWrites(o) }

\* C18: whatever valid PlanarInterleaving a rewrite of a tree uses, its tile
\* sequence holds every tile (IFD, plane, x, y) of the main image, its mask,
\* the overviews and their masks exactly once, and the rewrite writes, each
\* once, the bodies of the non-sparse ones among them: the tiles and bodies
\* depend on the tree alone, so two interleavings differ in the order only.
C18_SameTilesAnyInterleaving ==
  Finished =>
    /\ Len(assignLog) = Cardinality(AllTiles(ifd0))
    /\ Range(assignLog) = AllTiles(ifd0)
    /\ Cardinality(TileWrites(out)) = Cardinality(BodiesOf(ifd0))
    /\ BodiesWritten(out) = BodiesOf(ifd0)

C18_Witness ==
  /\ Finished
  /\ cfg.PlanarInterleaving = << <<0>>, <<3>>, <<2>>, <<1>> >>
  /\ Len(ifd.overviews) > 0
  /\ Cardinality(TileWrites(out)) > 8

\* the tile sequence computeImageryOffsets and the tile writer go through for
\* the tree t, under the default interleaving
TilesVisited(t) ==
  LET t1 == applyPlanarInterleaving(DefaultConfig, t).ifd
  IN tiles(t1, ifdInterlacing(t1))

\* C19: every IFD the loader accepts has nPlanes x nTilesX x nTilesY entries
\* in TileByteCounts, and no tile the offset pass and the tile writer visit in
\* the tree it built has an index outside TileByteCounts (and so outside
\* newTileOffsets, which has the same length).
C19_TileIndexesInRange ==
  /\ lpc \in {"sort", "walk", "built"} =>
       \A i \in 1..Len(ifds) :
         Len(ifds[i].TileByteCounts)
           = nPlanes(ifds[i]) * nTilesX(ifds[i]) * nTilesY(ifds[i])
  /\ lpc = "built" =>
       LET s == TilesVisited(ifds[1])
       IN \A k \in 1..Len(s) :
            LET x == Node(ifds[1], s[k].lvl, s[k].mask)
            IN tileIdx(x, s[k].x, s[k].y, s[k].plane) < Len(x.TileByteCounts)


\* ------------------------------------------------------- a sink that fails
\* A write to the sink, or a read of a tile, may return an error.  Each action
\* below is what RewriteIFDTree does when one of them does; out keeps the
\* writes that succeeded.

\* writeHeader returns the error of the header or of the ghost block, and
\* RewriteIFDTree calls it as a statement: the error is dropped and the
\* directories are written next.
WriteHeaderFails ==
  /\ pc = "header"
  /\ UNCHANGED << lvars, svars >>
  /\ \E part \in IF cog.withGDALGhost THEN {"header", "ghost"} ELSE {"header"} :
       /\ failed' = part
       /\ out' = IF part = "ghost"
                   THEN Write(out, "header", Len(headerBytes(cog, ifd)),
                              [bytes |-> headerBytes(cog, ifd)])
                 ELSE out
  /\ off' = (IF cog.bigtiff THEN 16 ELSE 8) + ghostBytes(cog, ifd)
  /\ pc' = "main"
  /\ UNCHANGED << flags, cfg, ifd0, ifd, cog, dataOffset, tilesCh, assignLog,
                  strileData, ovrI, err, restarts, startBig, run, prevOut >>

\* the prefix RewriteIFDTree puts before the error of the writeIFD at pc
writeIFDWrap(p) ==
  CASE p = "main" -> "write main ifd: "
    [] p = "mainmask" -> "write mask: "
    [] p = "ovr" -> "write overview ifd: "
    [] p = "ovrmask" -> "write ifd: "

\* what writeIFD returns when its write of part fails; the write of a
\* directory entry does not return
writeIFDError(part) ==
  CASE part = "count" -> "write header"
    [] part = "next" -> "write next"
    [] part = "parea" -> "write parea"

\* writeIFD with a failing write: of the entry count, of a directory entry
\* (writeField, writeArray), of the next-IFD pointer or of the overflow area
WriteIFDFails ==
  /\ pc \in {"main", "mainmask", "ovr", "ovrmask"}
  /\ pc = "ovr" => ovrI <= Len(ifd.overviews)
  /\ UNCHANGED << lvars, svars >>
  /\ \E part \in {"count", "entry", "next", "parea"} :
       /\ failed' = part
       /\ IF part = "entry"
            THEN \* panic(err): nothing recovers it
                 /\ pc' = "panic"
                 /\ err' = err
          ELSE /\ pc' = "done"
               /\ err' = writeIFDWrap(pc) \o writeIFDError(part)
  /\ UNCHANGED << flags, cfg, ifd0, ifd, cog, dataOffset, tilesCh, assignLog,
                  strileData, off, ovrI, out, restarts, startBig, run, prevOut >>

\* out.Write(strileData.Bytes()) fails
WriteStrilesFails ==
  /\ pc = "ovr"
  /\ ovrI > Len(ifd.overviews)
  /\ UNCHANGED << lvars, svars >>
  /\ failed' = "strile"
  /\ err' = "write strile pointers"
  /\ pc' = "done"
  /\ UNCHANGED << flags, cfg, ifd0, ifd, cog, dataOffset, tilesCh, assignLog,
                  strileData, off, ovrI, out, restarts, startBig, run, prevOut >>

\* the loop over the tiles: tile.Data, or the write of the tile, fails for
\* the tile just received, and RewriteIFDTree returns without receiving more
WriteTileFails ==
  /\ pc = "tiles"
  /\ UNCHANGED << lvars, svars >>
  /\ tilesCh # <<>>
  /\ LET tl == Head(tilesCh)
         x == Node(ifd, tl.lvl, tl.mask)
     IN tileLen(x, tileIdx(x, tl.x, tl.y, tl.plane)) > 0
  /\ \E part \in {"load_tile", "tile"} :
       /\ failed' = part
       /\ err' = IF part = "load_tile" THEN "tile.data" ELSE "write"
  /\ tilesCh' = Tail(tilesCh)
  /\ pc' = "done"
  /\ UNCHANGED << flags, cfg, ifd0, ifd, cog, dataOffset, assignLog, strileData,
                  off, ovrI, out, restarts, startBig, run, prevOut >>

\* the rewrites of the library into a sink that may fail
InitFail ==
  /\ Init
  /\ pc = "rewrite"

NextFail ==
  \/ Start
  \/ ComputeStructure
  \/ AssignTile
  \/ AssignDone
  \/ WriteHeader
  \/ WriteHeaderFails
  \/ WriteMainIFD
  \/ WriteMainMask
  \/ WriteOverviewIFD
  \/ WriteOverviewMask
  \/ WriteIFDFails
  \/ WriteStriles
  \/ WriteStrilesFails
  \/ WriteTile
  \/ WriteTileFails
  \/ Finish

SpecFail == InitFail /\ [][NextFail]_vars

\* the call returned, or panicked
Ended == pc \in {"done", "panic"}

\* C20: when a write to the sink (header, ghost block, directory entry,
\* next-IFD pointer, overflow area, strile arrays, tile) or a read of a tile
\* failed, the rewrite ends by returning an error: it does not return nil and
\* it does not panic.
C20_FailureReturnsError ==
  (Ended /\ failed # "") => (pc = "done" /\ err # "")

\* C25: with either ghost block and either header size, the offset of the
\* first directory the header announces (header size + ghost block length) is
\* a multiple of 2 bytes.
C25_FirstDirectoryAligned ==
  \A i \in 1..Len(out) :
    out[i].kind = "header" => FirstIFDOffset(cog.enc, out[i].d.bytes) % 2 = 0

\* the bytes of a written directory before its overflow area: the entry
\* count, the entries and the next-IFD pointer
FixedBytes(c, d) ==
  (IF c.bigtiff THEN 8 ELSE 2) + Len(d.entries) * (IF c.bigtiff THEN 20 ELSE 12)
    + (IF c.bigtiff THEN 8 ELSE 4)

\* the entries of the directories ds, in order, that point into the strile area
RECURSIVE StrileEntries(_)
StrileEntries(ds) ==
  IF ds = <<>> THEN <<>>
  ELSE SelectSeq(Head(ds).d.entries, LAMBDA e : e.tag \in {324, 325} /\ ~e.inline)
         \o StrileEntries(Tail(ds))

\* every offset stored in directory i of the sink o points at the place where
\* its payload is written in the overflow area of that directory
OverflowPointersHit(c, o, i) ==
  LET d == o[i].d
  IN \A k \in 1..Len(d.entries) :
       LET e == d.entries[k]
       IN (~e.inline /\ e.tag \notin {324, 325}) =>
            \E j \in 1..Len(d.overflow.parts) :
              /\ d.overflow.parts[j].tag = e.tag
              /\ e.ptr = o[i].at + FixedBytes(c, d) + d.overflow.parts[j].rel

\* every offset of a TileOffsets or TileByteCounts entry points at the place
\* where the array is written in the strile area
StrilePointersHit(o) ==
  LET es == StrileEntries(Dirs(o))
  IN \A s \in 1..Len(o) :
       o[s].kind = "strile" =>
         /\ Len(es) = Len(o[s].d.parts)
         /\ \A k \in 1..Len(es) :
              /\ es[k].tag = o[s].d.parts[k].tag
              /\ es[k].ptr = o[s].at + o[s].d.parts[k].rel

\* C23: when the rewrite has returned without error, every offset stored in an
\* entry of a written directory is the position in the output where the first
\* byte of its payload was written: in the directory's own overflow area,
\* right after its next-IFD pointer, for ordinary tags, and in the strile area
\* after the last directory for TileOffsets and TileByteCounts.
C23_PointersHitPayloads ==
  Finished =>
    /\ \A i \in 1..Len(out) : out[i].kind = "ifd" => OverflowPointersHit(cog, out, i)
    /\ StrilePointersHit(out)

\* ------------------------------------------------- one directory on its own
\* computeStructure and writeIFD on one IFD whose tags are present or absent
\* and whose arrays are short or long, in both addressing modes.
ScalarFields ==
  { "SubfileType", "ImageWidth", "ImageHeight", "Compression",
    "PhotometricInterpretation", "SamplesPerPixel", "PlanarConfiguration",
    "Predictor", "TileWidth", "TileHeight" }

\* the array and string fields, by the type of their elements
ArrayClass ==
  [ BitsPerSample |-> "u16", Colormap |-> "u16", ExtraSamples |-> "u16",
    SampleFormat |-> "u16", GeoKeyDirectoryTag |-> "u16",
    DocumentName |-> "str", DateTime |-> "str", GeoAsciiParamsTag |-> "str",
    GDALMetaData |-> "str", NoData |-> "str",
    JPEGTables |-> "byte",
    ModelPixelScaleTag |-> "f64", ModelTiePointTag |-> "f64",
    ModelTransformationTag |-> "f64", GeoDoubleParamsTag |-> "f64", RPCs |-> "f64",
    LERCParams |-> "u32",
    TileByteCounts |-> "strile", TileOffsets |-> "strile", newTileOffsets |-> "strile" ]

ArrayFields == DOMAIN ArrayClass

\* the lengths tried for each type: on both sides of the inline limit of the
\* classic and of the BigTIFF slot
ClassLens ==
  [ u16 |-> {0, 1, 2, 3, 4, 5}, str |-> {0, 1, 3, 4, 7, 8}, byte |-> {0, 4, 5, 8, 9},
    f64 |-> {0, 1, 2}, u32 |-> {0, 1, 2, 3}, strile |-> {0, 1, 2, 3} ]

\* a length of each type that does not fit the slot in either mode
LongLen == [ u16 |-> 5, str |-> 8, byte |-> 9, f64 |-> 2, u32 |-> 3, strile |-> 3 ]

\* the IFD with the scalars sc and arrays of the lengths ln
DirIFD(sc, ln) ==
  [ f \in DOMAIN EmptyIFD |->
      IF f \in ScalarFields THEN sc[f]
      ELSE IF f \in ArrayFields THEN [i \in 1..ln[f] |-> i]
      ELSE EmptyIFD[f] ]

\* The IFDs tried: every combination of present and absent scalars with long
\* arrays, every combination of lengths by type, and every array alone or
\* alone missing.
InitDir ==
  /\ pc = "dir"
  /\ cog \in [enc : {"LE"}, bigtiff : BOOLEAN, withGDALGhost : {FALSE}]
  /\ \/ \E sc \in [ScalarFields -> {0, 1}] :
          ifd = DirIFD(sc, [f \in ArrayFields |-> LongLen[ArrayClass[f]]])
     \/ \E a \in ClassLens.u16, b \in ClassLens.str, c \in ClassLens.byte,
           d \in ClassLens.f64, e \in ClassLens.u32, t \in ClassLens.strile :
          LET cl == [u16 |-> a, str |-> b, byte |-> c, f64 |-> d, u32 |-> e,
                     strile |-> t]
          IN ifd = DirIFD([f \in ScalarFields |-> 1],
                          [f \in ArrayFields |-> cl[ArrayClass[f]]])
     \/ \E g \in ArrayFields \ {"TileOffsets", "newTileOffsets"}, alone \in BOOLEAN :
          ifd = DirIFD([f \in ScalarFields |-> 1],
                       [f \in ArrayFields |->
                          IF (ArrayClass[f] = "strile" /\ ArrayClass[g] = "strile")
                               \/ f = g
                            THEN (IF alone THEN LongLen[ArrayClass[f]] ELSE 0)
                          ELSE (IF alone THEN 0 ELSE LongLen[ArrayClass[f]])])
  /\ ifd0 = EmptyIFD
  /\ flags \in { f \in NoFlags : ~f.firstInputBigtiff }
  /\ cfg = DefaultConfig
  /\ dataOffset = 0
  /\ tilesCh = <<>>
  /\ assignLog = <<>>
  /\ strileData = NewTagData(0)
  /\ off = 0
  /\ ovrI = 0
  /\ out = <<>>
  /\ err = ""
  /\ restarts = 0
  /\ startBig = FALSE
  /\ run = 1
  /\ prevOut = <<>>
  /\ failed = ""
  /\ LoaderIdle
  /\ StripperIdle

\* cog.computeStructure(ifd)
PlanDirectory ==
  /\ pc = "dir"
  /\ ifd' = computeStructure(cog, ifd)
  /\ pc' = "planned"
  /\ UNCHANGED << flags, cfg, ifd0, cog, dataOffset, tilesCh, assignLog, strileData,
                  off, ovrI, out, err, restarts, startBig, run, prevOut >>
  /\ UNCHANGED << lvars, failed, svars >>

\* cog.writeIFD(out, ifd, off, strileData, next) into an empty sink
WriteDirectory ==
  /\ pc = "planned"
  /\ \E next \in BOOLEAN :
       LET r == writeIFD(cog, ifd, off, strileData, next)
       IN /\ out' = WriteDir(out, 0, FALSE, r)
          /\ strileData' = r.striledata
  /\ pc' = "written"
  /\ UNCHANGED << flags, cfg, ifd0, ifd, cog, dataOffset, tilesCh, assignLog, off,
                  ovrI, err, restarts, startBig, run, prevOut >>
  /\ UNCHANGED << lvars, failed, svars >>

NextDir ==
  \/ PlanDirectory
  \/ WriteDirectory

SpecDir == InitDir /\ [][NextDir]_vars

\* C24: for every IFD, whatever tags are present and however long its arrays
\* are, in classic and in BigTIFF mode, the writer emits as many entries as
\* computeStructure counted (ntags), PhotometricInterpretation among them
\* exactly once also when it is 0, the directory written (entry count,
\* entries, next-IFD pointer, overflow area) is tagSize bytes long, and the
\* strile buffer grew by strileSize bytes.
C24_PlannerMatchesWriter ==
  pc = "written" =>
    LET d == out[1].d
    IN /\ Len(d.entries) = ifd.ntags
       /\ Cardinality({ k \in 1..Len(d.entries) : d.entries[k].tag = 262 }) = 1
       /\ out[1].len = ifd.tagSize
       /\ strileData.len = ifd.strileSize

\* a BigTIFF directory without SubfileType whose PhotometricInterpretation is
\* 0 was written with payloads in its overflow area and in the strile buffer
C24_Witness ==
  /\ pc = "written"
  /\ cog.bigtiff
  /\ ifd.PhotometricInterpretation = 0
  /\ ifd.SubfileType = 0
  /\ ifd.ImageWidth > 0
  /\ out[1].d.overflow.len > 0
  /\ strileData.len > 0

\* C27: the producer of the tile sequence always runs to completion: whenever
\* the offset computation and RewriteIFDTree have ended (normal end, restart
\* in BigTIFF mode, failed tile read, failed write to the sink) every tile the
\* producer had to send has been received, so it is not blocked on a send.
C27_ProducerDrained ==
  Ended => tilesCh = <<>>

\* C28: a call of AddOverview or AddMask that returns an error changes
\* nothing: the receiver keeps its mask and its overviews and the candidate
\* keeps its subfile type and all its tags, i.e. every IFD the caller holds is
\* after the call what it was before.
C28_FailedCallChangesNothing ==
  [][(call'.op \in {"AddOverview", "AddMask"} /\ call'.err # "") => ifds' = ifds]_vars

\* a is larger than b in both dimensions
Larger(a, b) == a.ImageWidth > b.ImageWidth /\ a.ImageHeight > b.ImageHeight

\* c can become an overview of x next to the overviews x has: it is smaller
\* than x, has the sample layout of x and is strictly ordered in size with
\* every overview of x
FitsAsOverview(x, c) ==
  /\ Len(c.overviews) = 0
  /\ Larger(x, c)
  /\ c.SamplesPerPixel = x.SamplesPerPixel
  /\ Len(c.BitsPerSample) = Len(x.BitsPerSample)
  /\ \A i \in 1..Len(x.overviews) :
       /\ x.overviews[i].SamplesPerPixel = x.SamplesPerPixel
       /\ Len(x.overviews[i].BitsPerSample) = Len(x.BitsPerSample)
       /\ Larger(x.overviews[i], c) \/ Larger(c, x.overviews[i])

\* C29: the result of attaching overviews does not depend on the order of the
\* AddOverview calls: whatever overviews a receiver already has, AddOverview
\* of a fitting candidate succeeds and leaves the overviews sorted from the
\* largest to the smallest.
C29_AnyOrderSucceeds ==
  \A p \in Reachable, j \in 1..Len(ifds) :
    LET x == headOf(ifds[p[1]], p[2])
        r == AddOverview(x, ifds[j])
    IN (j # p[1] /\ FitsAsOverview(x, ifds[j])) =>
         /\ r.err = ""
         /\ \A i \in 1..(Len(r.ifd.overviews) - 1) :
              Larger(r.ifd.overviews[i], r.ifd.overviews[i + 1])

\* ---------------------------------------------------------------- stripper
\* The largest image width and height of a Stripper
MaxWidth == 5
MaxHeight == 9

\* int(math.Ceil(float64(a) / float64(b))) of positive ints
CeilDiv(a, b) == (a + b - 1) \div b

\* the float64 n/d, kept as a fraction
Frac(n, d) == [n |-> n, d |-> d]

\* stripping's loop that makes a strip of its own of every remainder
RECURSIVE stripLoopNoMerge(_, _, _, _, _, _, _, _, _)
stripLoopNoMerge(t, srcWidth, srcHeight, dstWidth, dstHeight, stripHeight, numStrips, s, acc) ==
  IF s >= numStrips THEN acc.strips
  ELSE
    LET dstRow == acc.dstRow
        thisHeight == IF dstRow + stripHeight > dstHeight THEN dstHeight - dstRow
                      ELSE stripHeight
        strips ==
          Append(acc.strips,
                 [SrcTopLeftX |-> 0,
                  SrcTopLeftY |-> Frac(dstRow * srcHeight, dstHeight),
                  SrcWidth |-> srcWidth,
                  SrcHeight |-> Frac(thisHeight * srcHeight, dstHeight),
                  Width |-> dstWidth,
                  Height |-> thisHeight,
                  TopLeftX |-> 0,
                  TopLeftY |-> dstRow])
    IN stripLoopNoMerge(t, srcWidth, srcHeight, dstWidth, dstHeight, stripHeight,
                        numStrips, s + 1,
                        [strips |-> strips, dstRow |-> dstRow + stripHeight])

\* the strips of stripping's loop from strip s on: dstRow is the row reached,
\* strips the strips made so far
RECURSIVE stripLoop(_, _, _, _, _, _, _, _, _)
stripLoop(t, srcWidth, srcHeight, dstWidth, dstHeight, stripHeight, numStrips, s, acc) ==
  IF s >= numStrips THEN acc.strips
  ELSE
    LET dstRow == acc.dstRow
        thisHeight == IF dstRow + stripHeight > dstHeight THEN dstHeight - dstRow
                      ELSE stripHeight
        n == Len(acc.strips)
        strips ==
          IF s > 0 /\ thisHeight < t.internalTilingHeight
            THEN [acc.strips EXCEPT
                    ![n].SrcHeight = Frac(@.n + thisHeight * srcHeight, dstHeight),
                    ![n].Height = @ + thisHeight]
          ELSE Append(acc.strips,
                 [SrcTopLeftX |-> 0,
                  SrcTopLeftY |-> Frac(dstRow * srcHeight, dstHeight),
                  SrcWidth |-> srcWidth,
                  SrcHeight |-> Frac(thisHeight * srcHeight, dstHeight),
                  Width |-> dstWidth,
                  Height |-> thisHeight,
                  TopLeftX |-> 0,
                  TopLeftY |-> dstRow])
    IN stripLoop(t, srcWidth, srcHeight, dstWidth, dstHeight, stripHeight, numStrips,
                 s + 1, [strips |-> strips, dstRow |-> dstRow + stripHeight])

\* stripping with a strip height that is not rounded up to whole tiles
strippingUnrounded(t, srcWidth, srcHeight, dstWidth, dstHeight) ==
  LET n0 == (srcWidth * srcHeight) \div t.targetStripPixelCount
      n1 == IF n0 = 0 THEN 1 ELSE n0
      h0 == dstHeight \div n1
      h1 == IF h0 <= t.internalTilingHeight THEN t.internalTilingHeight ELSE h0
      stripHeight ==
        IF srcWidth = dstWidth /\ srcHeight = dstHeight
             /\ t.fullresStripHeightMultiple # 0
          THEN (h1 \div t.fullresStripHeightMultiple + 1) * t.fullresStripHeightMultiple
        ELSE h1
      numStrips == CeilDiv(dstHeight, stripHeight)
  IN [internalTilingWidth |-> t.internalTilingHeight,
      internalTilingHeight |-> t.internalTilingHeight,
      Width |-> dstWidth,
      Height |-> dstHeight,
      Strips |-> stripLoop(t, srcWidth, srcHeight, dstWidth, dstHeight, stripHeight,
                           numStrips, 0, [strips |-> <<>>, dstRow |-> 0])]

\* Stripper.stripping: the Image of dstWidth x dstHeight pixels made from a
\* source of srcWidth x srcHeight; targetStripPixelCount is not 0
stripping(t, srcWidth, srcHeight, dstWidth, dstHeight) ==
  LET n0 == (srcWidth * srcHeight) \div t.targetStripPixelCount
      n1 == IF n0 = 0 THEN 1 ELSE n0
      h0 == dstHeight \div n1
      h1 == IF h0 <= t.internalTilingHeight THEN t.internalTilingHeight ELSE h0
      stripHeight ==
        IF srcWidth = dstWidth /\ srcHeight = dstHeight
             /\ t.fullresStripHeightMultiple # 0
          THEN (h1 \div t.fullresStripHeightMultiple + 1) * t.fullresStripHeightMultiple
        ELSE IF h1 % t.internalTilingHeight # 0
          THEN (h1 \div t.internalTilingHeight + 1) * t.internalTilingHeight
        ELSE h1
      numStrips == CeilDiv(dstHeight, stripHeight)
  IN [internalTilingWidth |-> t.internalTilingHeight,
      internalTilingHeight |-> t.internalTilingHeight,
      Width |-> dstWidth,
      Height |-> dstHeight,
      Strips |-> stripLoop(t, srcWidth, srcHeight, dstWidth, dstHeight, stripHeight,
                           numStrips, 0, [strips |-> <<>>, dstRow |-> 0])]

\* the overview count with sizes halved rounding down
RECURSIVE autoOverviewCountFloor(_, _, _)
autoOverviewCountFloor(t, iw, ih) ==
  IF (iw > t.internalTilingWidth \/ ih > t.internalTilingHeight)
       /\ (iw > t.minOverviewSize /\ ih > t.minOverviewSize)
    THEN 1 + autoOverviewCountFloor(t, iw \div 2, ih \div 2)
  ELSE 0

\* the overview count pyramid computes when none was asked for
RECURSIVE autoOverviewCount(_, _, _)
autoOverviewCount(t, iw, ih) ==
  IF (iw > t.internalTilingWidth \/ ih > t.internalTilingHeight)
       /\ (iw > t.minOverviewSize /\ ih > t.minOverviewSize)
    THEN 1 + autoOverviewCount(t, CeilDiv(iw, 2), CeilDiv(ih, 2))
  ELSE 0

\* the overviews ovr..overviewCount of pyramid's loop: [err, pyr]
RECURSIVE pyramidLevels(_, _, _, _, _, _)
pyramidLevels(t, overviewCount, ovr, iw, ih, acc) ==
  IF ovr > overviewCount THEN [err |-> "", pyr |-> acc]
  ELSE IF iw <= 1 \/ ih <= 1
    THEN [err |-> "requested overview count results in 0-sized image", pyr |-> <<>>]
  ELSE LET niw == CeilDiv(iw, 2)
           nih == CeilDiv(ih, 2)
       IN pyramidLevels(t, overviewCount, ovr + 1, niw, nih,
                        Append(acc, stripping(t, iw, ih, niw, nih)))

\* Stripper.pyramid: [err, pyr]
pyramid(t, width, height) ==
  IF width * height = 0 THEN [err |-> "cannot tile 0-sized image", pyr |-> <<>>]
  ELSE LET overviewCount == IF t.overviewCount = -1
                              THEN autoOverviewCount(t, width, height)
                            ELSE t.overviewCount
       IN pyramidLevels(t, overviewCount, 1, width, height,
                        << stripping(t, width, height, width, height) >>)

\* the options a caller passes: unset ones keep NewStripper's defaults, scaled
\* down (a tile of 2x2 pixels, strips of 16 pixels)
StripperOptions ==
  [ internalTilingWidth : {1, 2, 4}, internalTilingHeight : {2, 4},
    targetStripPixelCount : {0, 4, 16},
    minOverviewSize : {1, 2},
    fullresStripHeightMultiple : {0, 3, 4, 6},
    overviewCount : {-1, 2} ]

\* NewStripper after the options were applied: [state, err, pyr]
NewStripper(width, height, t) ==
  IF t.fullresStripHeightMultiple % t.internalTilingHeight # 0
    THEN [state |-> "failed", err |-> "StripHeightMultiple must be a multiple of internal tiling height",
          pyr |-> <<>>]
  ELSE IF width * height # 0 /\ t.targetStripPixelCount = 0
    THEN \* stripping divides by targetStripPixelCount
         [state |-> "panic", err |-> "", pyr |-> <<>>]
  ELSE LET r == pyramid(t, width, height)
       IN [state |-> IF r.err = "" THEN "built" ELSE "failed", err |-> r.err,
           pyr |-> r.pyr]

\* Image.tileStripIdx from strip on, accumy tile rows lying before it:
\* [strip, stripx, stripy]; strip is -1 where the code indexes past the strips
RECURSIVE stripIdxFrom(_, _, _, _, _)
stripIdxFrom(img, x, y, strip, accumy) ==
  IF strip >= Len(img.Strips) THEN [strip |-> -1, stripx |-> 0, stripy |-> 0]
  ELSE
    LET stripnty == (img.Strips[strip + 1].Height + img.internalTilingHeight - 1)
                      \div img.internalTilingHeight
        ntx == (img.Strips[strip + 1].Width + img.internalTilingWidth - 1)
                 \div img.internalTilingWidth
    IN IF accumy + stripnty <= y THEN stripIdxFrom(img, x, y, strip + 1, accumy + stripnty)
       ELSE [strip |-> strip, stripx |-> x % ntx, stripy |-> y - accumy]

tileStripIdx(img, x, y) == stripIdxFrom(img, x, y, 0, 0)

InitStrip ==
  /\ \E w \in 1..MaxWidth, h \in 1..MaxHeight, t \in StripperOptions :
       stripper = [state |-> "new", width |-> w, height |-> h, opts |-> t]
  /\ stripIdx = NoStripIdx
  /\ LoaderIdle
  /\ pc = "idle"
  /\ flags \in { f \in NoFlags : ~f.firstInputBigtiff }
  /\ cfg = DefaultConfig
  /\ ifd0 = EmptyIFD
  /\ ifd = EmptyIFD
  /\ cog = NoCog
  /\ dataOffset = 0
  /\ tilesCh = <<>>
  /\ assignLog = <<>>
  /\ strileData = NewTagData(0)
  /\ off = 0
  /\ ovrI = 0
  /\ out = <<>>
  /\ err = ""
  /\ restarts = 0
  /\ startBig = FALSE
  /\ run = 1
  /\ prevOut = <<>>
  /\ failed = ""

\* NewStripper(width, height, options...)
CallNewStripper ==
  /\ stripper.state = "new"
  /\ LET r == NewStripper(stripper.width, stripper.height, stripper.opts)
     IN stripper' = [state |-> r.state, width |-> stripper.width,
                     height |-> stripper.height, opts |-> stripper.opts,
                     err |-> r.err, pyr |-> r.pyr]
  /\ UNCHANGED << stripIdx, rvars, lvars >>

\* assembleLevelStrips asks for the strip of the output tile (x, y) of a level;
\* the assembled IFD has the tiling of the strip files, the internal tile size
CallTileStripIdx ==
  /\ stripper.state = "built"
  /\ \E z \in 1..Len(stripper.pyr) :
       LET img == stripper.pyr[z]
       IN \E x \in 0..(CeilDiv(img.Width, stripper.opts.internalTilingWidth) - 1),
             y \in 0..(CeilDiv(img.Height, stripper.opts.internalTilingHeight) - 1) :
            LET r == tileStripIdx(img, x, y)
            IN stripIdx' = [level |-> z - 1, x |-> x, y |-> y, strip |-> r.strip,
                            stripx |-> r.stripx, stripy |-> r.stripy]
  /\ UNCHANGED << stripper, rvars, lvars >>

NextStrip ==
  \/ CallNewStripper
  \/ CallTileStripIdx

SpecStrip == InitStrip /\ [][NextStrip]_vars

\* a Stripper was built without an explicit overview count
BuiltAuto == stripper.state = "built" /\ stripper.opts.overviewCount = -1

\* pyramid goes on halving an image of w x h pixels
Halves(t, w, h) ==
  (w > t.internalTilingWidth \/ h > t.internalTilingHeight)
    /\ (w > t.minOverviewSize /\ h > t.minOverviewSize)

\* the options of TestStripperOverviews: tiles of 300x300, overviews down to 3
TestOptions ==
  [ internalTilingWidth |-> 300, internalTilingHeight |-> 300,
    targetStripPixelCount |-> 8192 * 8192, minOverviewSize |-> 3,
    fullresStripHeightMultiple |-> 0, overviewCount |-> -1 ]

\* the levels of the pyramid of a w x h image under TestOptions
TestLevels(w, h) == Len(pyramid(TestOptions, w, h).pyr)

\* C21: with no explicit overview count the pyramid of a W x H image has
\* 1 + k levels, k being the number of halvings (w, h) -> (ceil(w/2), ceil(h/2))
\* made while (w > tile width or h > tile height) and (w > min overview size
\* and h > min overview size): level 0 is W x H, each next level has the halved
\* size of the one before, every level but the last is one that is halved and
\* the last is not.  With tiles of 300x300 and a minimal overview size of 3,
\* (300,300) has 1 level, (301,301) 2, (300,301) 2, (301,4) 2, (301,3) 1,
\* (4,301) 2 and (2,301) 1.
C21_PyramidDepth ==
  /\ TestLevels(300, 300) = 1 /\ TestLevels(301, 301) = 2 /\ TestLevels(300, 301) = 2
  /\ TestLevels(301, 4) = 2 /\ TestLevels(301, 3) = 1
  /\ TestLevels(4, 301) = 2 /\ TestLevels(2, 301) = 1
  /\ BuiltAuto =>
    LET pyr == stripper.pyr
        t == stripper.opts
    IN /\ Len(pyr) >= 1
       /\ pyr[1].Width = stripper.width /\ pyr[1].Height = stripper.height
       /\ \A i \in 1..(Len(pyr) - 1) :
            /\ Halves(t, pyr[i].Width, pyr[i].Height)
            /\ pyr[i + 1].Width = (pyr[i].Width + 1) \div 2
            /\ pyr[i + 1].Height = (pyr[i].Height + 1) \div 2
       /\ ~Halves(t, pyr[Len(pyr)].Width, pyr[Len(pyr)].Height)

\* a 5x9 image with tiles of 1x2 pixels got the levels 5x9, 3x5, 2x3 and 1x2
C21_Witness ==
  /\ BuiltAuto
  /\ stripper.width = 5 /\ stripper.height = 9
  /\ stripper.opts.internalTilingWidth = 1
  /\ stripper.opts.minOverviewSize = 1
  /\ Len(stripper.pyr) = 4
  /\ stripper.pyr[4].Width = 1 /\ stripper.pyr[4].Height = 2

\* the heights of the strips of an image
Heights(img) == [k \in 1..Len(img.Strips) |-> img.Strips[k].Height]

RECURSIVE SumSeq(_)
SumSeq(s) == IF s = <<>> THEN 0 ELSE Head(s) + SumSeq(Tail(s))

\* the options of TestFullresStripHeightMultipleCount: tiles of 256x256,
\* strips of 256x256 pixels, strip heights multiple of m
MultipleOptions(m) ==
  [ internalTilingWidth |-> 256, internalTilingHeight |-> 256,
    targetStripPixelCount |-> 256 * 256, minOverviewSize |-> 2,
    fullresStripHeightMultiple |-> m, overviewCount |-> -1 ]

\* the full-resolution strip heights of a 256 x h image under MultipleOptions(m)
TestHeights(h, m) == Heights(stripping(MultipleOptions(m), 256, h, 256, h))

\* a Stripper was built with FullresStripHeightMultiple set
BuiltWithMultiple ==
  stripper.state = "built" /\ stripper.opts.fullresStripHeightMultiple # 0

\* C22: with FullresStripHeightMultiple(m), m a multiple of the internal tile
\* height, the full-resolution strips cover the image height exactly (their
\* heights sum to H and the source height of each is its height), every strip
\* but the last has a height that is a positive multiple of m, and a remainder
\* shorter than a tile is merged into the strip before it, so that no strip
\* after the first is shorter than a tile.  With tiles of 256 and strips of
\* 256x256 pixels: (H=1024, m=512) gives [512, 512], (1025, 512) [512, 513],
\* (1024, 768) [768, 256] and (1023, 768) [1023].
C22_FullresStripHeights ==
  /\ TestHeights(1024, 512) = <<512, 512>>
  /\ TestHeights(1025, 512) = <<512, 513>>
  /\ TestHeights(1024, 768) = <<768, 256>>
  /\ TestHeights(1023, 768) = <<1023>>
  /\ BuiltWithMultiple =>
       LET img == stripper.pyr[1]
           m == stripper.opts.fullresStripHeightMultiple
           n == Len(img.Strips)
       IN /\ n >= 1
          /\ SumSeq(Heights(img)) = stripper.height
          /\ \A k \in 1..n :
               img.Strips[k].SrcHeight.n = img.Strips[k].Height * img.Strips[k].SrcHeight.d
          /\ \A k \in 1..(n - 1) :
               img.Strips[k].Height > 0 /\ img.Strips[k].Height % m = 0
          /\ \A k \in 2..n : img.Strips[k].Height >= stripper.opts.internalTilingHeight

\* a 5x9 image with tiles 2 high and m = 4 got the strips [4, 5]: the last
\* row was merged into the second strip
C22_Witness ==
  /\ BuiltWithMultiple
  /\ stripper.height = 9
  /\ stripper.opts.internalTilingHeight = 2
  /\ stripper.opts.fullresStripHeightMultiple = 4
  /\ Heights(stripper.pyr[1]) = <<4, 5>>

\* the tile rows of strip k (from 1) of an image
TileRows(img, k) == CeilDiv(img.Strips[k].Height, stripper.opts.internalTilingHeight)

\* the tile rows of the strips of an image before strip k (from 1)
RECURSIVE TileRowsBefore(_, _)
TileRowsBefore(img, k) ==
  IF k <= 1 THEN 0 ELSE TileRows(img, k - 1) + TileRowsBefore(img, k - 1)

\* the output tiles of an image of the pyramid
OutputTiles(img) ==
  (0..(CeilDiv(img.Width, stripper.opts.internalTilingWidth) - 1))
    \X (0..(CeilDiv(img.Height, stripper.opts.internalTilingHeight) - 1))

\* C26: for every image of a pyramid built with the internal tile size
\* (tw, th), square or not, and every output tile (x, y), tileStripIdx returns
\* an existing strip, stripx = x, and stripy = y minus the tile rows of the
\* strips before it, within the tile rows of that strip; distinct output tiles
\* map to distinct (strip, stripx, stripy).
C26_TileMapsIntoItsStrip ==
  (stripper.state = "built" /\ stripIdx # NoStripIdx) =>
    LET img == stripper.pyr[stripIdx.level + 1]
        k == stripIdx.strip + 1
    IN /\ k \in 1..Len(img.Strips)
       /\ stripIdx.stripx = stripIdx.x
       /\ stripIdx.stripy = stripIdx.y - TileRowsBefore(img, k)
       /\ stripIdx.stripy >= 0
       /\ stripIdx.stripy < TileRows(img, k)
       /\ \A t \in OutputTiles(img) :
            t # << stripIdx.x, stripIdx.y >> =>
              LET r == tileStripIdx(img, t[1], t[2])
              IN << r.strip, r.stripx, r.stripy >>
                   # << stripIdx.strip, stripIdx.stripx, stripIdx.stripy >>

\* the strips of an image partition its rows into whole tile rows
PartitionsRows(img, th) ==
  LET n == Len(img.Strips)
  IN /\ n >= 1
     /\ img.Strips[1].TopLeftY = 0
     /\ \A k \in 1..(n - 1) :
          /\ img.Strips[k + 1].TopLeftY = img.Strips[k].TopLeftY + img.Strips[k].Height
          /\ img.Strips[k].Height > 0
          /\ img.Strips[k].Height % th = 0
     /\ img.Strips[n].TopLeftY + img.Strips[n].Height = img.Height
     /\ SumSeq(Heights(img)) = img.Height
     /\ n > 1 => img.Strips[n].Height >= th
     /\ TileRowsBefore(img, n + 1) = CeilDiv(img.Height, th)

\* C30: for every level of a pyramid the strips partition the image rows: the
\* first strip starts at row 0, each next strip starts where the one before
\* ends, the strip heights sum to the image height, every strip but the last
\* has a height that is a multiple of the internal tile height, and the last
\* strip is at least one tile high unless it is the only strip, so that the
\* tile rows of the strips add up to ceil(Height / tile height).
C30_StripsPartitionRows ==
  stripper.state = "built" =>
    \A z \in 1..Len(stripper.pyr) :
      PartitionsRows(stripper.pyr[z], stripper.opts.internalTilingHeight)

\* a pyramid of several levels whose full-resolution image has several strips,
\* the last of them not made of whole tiles
C30_Witness ==
  /\ stripper.state = "built"
  /\ Len(stripper.pyr) >= 2
  /\ Len(stripper.pyr[1].Strips) >= 3
  /\ Last(stripper.pyr[1].Strips).Height % stripper.opts.internalTilingHeight # 0
  /\ \E z \in 2..Len(stripper.pyr) : Len(stripper.pyr[z].Strips) >= 2

====
